---- MODULE Spec2Model ----
(***************************************************************************)
(* Model of the EKS resource provider of the bottlerocket test system:     *)
(* EksCreator::create and EksDestroyer::destroy, the memo they checkpoint  *)
(* through the InfoClient, and the external operations they invoke.        *)
(*                                                                         *)
(* One agent process runs at a time against one Info Channel (store).  A   *)
(* run is create or destroy; pc is the position of the running process in  *)
(* the function body; each action is one checkpoint or one external call.  *)
(* Abort models the process being killed at its current position.          *)
(***************************************************************************)
EXTENDS Integers, Sequences, FiniteSets, TLC

\* ---------------------------------------------------------------- bounds
\* Number of agent runs (create or destroy processes) on one Info Channel.
MaxRuns == 2

\* ------------------------------------------------------------ value sets
None == "None"
DEFAULT_REGION == "us-west-2"

\* Resources: the classification carried by every ProviderError.
Resources == {"Clear", "Remaining", "Orphaned", "Unknown"}

\* CreationPolicy; "None" is an absent policy in the spec (unwrap_or_default).
CreationPolicy == {"Create", "IfNotExists", "Never"}
DefaultCreationPolicy == "IfNotExists"

SecretNames == {"aws-creds"}
RoleArns == {"arn:role"}

Option(S) == S \cup {None}

\* EksctlConfig: Args {cluster_name, region: Option} or File {encoded_config}.
\* A File config either fails to decode / lacks metadata (valid = FALSE) or
\* carries the name and region of its metadata.
EksctlConfig ==
    {[kind |-> "Args", valid |-> TRUE, cluster_name |-> "alpha", region |-> None],
     [kind |-> "Args", valid |-> TRUE, cluster_name |-> "beta", region |-> "eu-west-1"],
     [kind |-> "File", valid |-> FALSE, cluster_name |-> None, region |-> None],
     [kind |-> "File", valid |-> TRUE, cluster_name |-> "beta", region |-> "eu-west-1"]}

\* Spec<EksClusterConfig>: the inputs create reads from its spec argument.
SpecInputs ==
    [creation_policy : Option(CreationPolicy),
     secret : Option(SecretNames),
     assume_role : Option(RoleArns),
     config : EksctlConfig]

\* ------------------------------------------------------------------ memo
\* ProductionMemo and its Default.
DefaultMemo ==
    [current_status |-> "",
     aws_secret_name |-> None,
     cluster_name |-> None,
     creation_policy |-> None,
     region |-> None,
     assume_role |-> None,
     provisioning_started |-> FALSE]

NoResource == [cluster_name |-> None, region |-> None]
NoResult == [kind |-> "none", class |-> None, resource |-> NoResource]
Ok(r) == [kind |-> "ok", class |-> None, resource |-> r]
Err(c) == [kind |-> "err", class |-> c, resource |-> NoResource]
Aborted == [kind |-> "aborted", class |-> None, resource |-> NoResource]

\* What is remembered of a finished run: which operation, how it ended, and
\* whether it invoked eksctl create cluster.
Outcome(o, res, lg) ==
    [op |-> o, kind |-> res.kind, class |-> res.class,
     invoked_create |-> \E i \in 1..Len(lg) : lg[i].op = "eksctl_create"]

VARIABLES
    store,      \* the memo held by the Info Channel
    cloud,      \* the EKS clusters that exist: set of <<name, region>>
    pc,         \* position of the running agent process; "idle" when none runs
    op,         \* "create" / "destroy": the current (or last) run
    spec,       \* the spec argument of the current create run
    args,       \* presence of destroy's spec / prior_resource arguments
    memo,       \* the process's local memo
    cfg,        \* ClusterConfig built by ClusterConfig::new: [cluster_name, region]
    do_create,  \* the answer of is_eks_cluster_creation_required
    resource,   \* CreatedCluster gathered by created_cluster
    result,     \* what the current (or last) run returned
    log,        \* the calls the current run has made on its collaborators, in order
    prev,       \* Outcome of the run before the current one
    runs        \* number of runs started

providerVars == <<store, cloud, pc, op, spec, args, memo, cfg, do_create, resource,
                  result, log, prev, runs>>

\* The test agent (TestAgent<C, R>): one agent process, from new to the
\* return of run.
VARIABLES
    apc,          \* position of the agent process in new / run; "done" once returned
    agent,        \* TRUE once new has produced a TestAgent
    test_info,    \* what client.get_test_info returned
    test_results, \* what runner.run returned
    error,        \* the e bound where run observed a failure
    pending,      \* the best-effort calls run still makes before it returns
    returned,     \* what new / run returned
    calls         \* the calls made on the client and the runner, in order

agentVars == <<apc, agent, test_info, test_results, error, pending, returned, calls>>

\* One call of Cluster::wait_for_controller / wait_for_test_pod, or of the
\* poll loop alone. Time is in milliseconds.
VARIABLES
    wait_pc,      \* "idle", "evaluating", "sleeping", "done"
    now,          \* the time
    wake,         \* when the await the loop is suspended at completes
    deadline,     \* when tokio::time::timeout gives up; NoDeadline for the bare loop
    evaluations,  \* evaluations of the predicate completed
    predicate,    \* how the predicate answers: [true_at, err_at]
    wait_result   \* "none", "ok", "err", "timeout"

waitVars == <<wait_pc, now, wake, deadline, evaluations, predicate, wait_result>>

\* One application of service_ip_cidr_to_cluster_dns_ip.
VARIABLES
    ip_family,          \* Option<IpFamily>
    service_ipv4_cidr,  \* Option<String>
    service_ipv6_cidr,  \* Option<String>
    dns_ip              \* what the function returned

dnsVars == <<ip_family, service_ipv4_cidr, service_ipv6_cidr, dns_ip>>

\* A memo on its way through the Info Channel and back.
VARIABLES
    sent_memo,  \* the ProductionMemo of the last send_info
    channel,    \* what the Info Channel holds: the memo as a JSON object
    read_memo   \* what get_info returned since the last send_info

memoVars == <<sent_memo, channel, read_memo>>

\* One call of run_workload.
VARIABLES
    workload_pc,        \* position in run_workload; "start" before, "done" after
    workload_config,    \* WorkloadConfig: number of tests, sonobuoy_image given
    plugin_test_args,   \* the plugins generated so far, in order
    workload_steps,     \* the steps performed, each with how it ended
    workload_result     \* what run_workload returned

workloadVars ==
    <<workload_pc, workload_config, plugin_test_args, workload_steps, workload_result>>

\* The kind clusters of the selftest and the Cluster values that stand for
\* them.
VARIABLES
    kind_pc,        \* position in Cluster::new; "idle" outside it
    kind_op,        \* "new" / "drop": the current (or last) operation
    kind_name,      \* the cluster name the operation is about
    kind_clusters,  \* the kind clusters that exist: set of names
    kind_objects,   \* the live Cluster values, each by its name
    kind_calls,     \* the kind commands the operation has run
    kind_result,    \* what Cluster::new returned
    kind_logged,    \* drop has written its failure to stderr
    kind_ops        \* number of operations started

kindVars ==
    <<kind_pc, kind_op, kind_name, kind_clusters, kind_objects, kind_calls,
      kind_result, kind_logged, kind_ops>>

\* What each component leaves alone.
nonProviderVars == <<agentVars, waitVars, dnsVars, memoVars, workloadVars, kindVars>>
nonAgentVars == <<providerVars, waitVars, dnsVars, memoVars, workloadVars, kindVars>>
nonWaitVars == <<providerVars, agentVars, dnsVars, memoVars, workloadVars, kindVars>>
nonDnsVars == <<providerVars, agentVars, waitVars, memoVars, workloadVars, kindVars>>
nonMemoVars == <<providerVars, agentVars, waitVars, dnsVars, workloadVars, kindVars>>
nonWorkloadVars == <<providerVars, agentVars, waitVars, dnsVars, memoVars, kindVars>>
nonKindVars == <<providerVars, agentVars, waitVars, dnsVars, memoVars, workloadVars>>

vars == <<providerVars, agentVars, waitVars, dnsVars, memoVars, workloadVars, kindVars>>

\* Bound on the distinct error values a call can fail with.
MaxErrorId == 2
ErrorIds == 1..MaxErrorId

\* error::Error<C::E, R::E>: Client(e) or Runner(e); from names the call that
\* failed.
ClientError(from, id) == [kind |-> "Client", from |-> from, id |-> id]
RunnerError(from, id) == [kind |-> "Runner", from |-> from, id |-> id]
NoError == [kind |-> "None", from |-> "none", id |-> 0]

TestInfos == {"info_a", "info_b"}
TestResults == {"pass", "fail"}

AgentNone == [kind |-> "none", error |-> NoError]
AgentOk == [kind |-> "ok", error |-> NoError]
AgentErr(e) == [kind |-> "err", error |-> e]

\* tokio::time::sleep(Duration::from_millis(750))
SLEEP_MILLIS == 750

\* Bound on the evaluations of the predicate by one loop.
MaxEvaluations == 5

NoDeadline == 0 - 1

\* The durations a caller waits for: none, less than one sleep, one sleep,
\* between two and three sleeps, three sleeps.
Durations == {0, 500, SLEEP_MILLIS, 1600, 3 * SLEEP_MILLIS}

\* How long one evaluation of the predicate (a list request) takes.
EvaluationMillis == {0, 100}

\* A predicate answers "false" until it is ready at its true_at-th
\* evaluation (0: never) and fails at its err_at-th evaluation (0: never).
Predicates == [true_at : 0..MaxEvaluations, err_at : 0..MaxEvaluations]

NoPredicate == [true_at |-> 0, err_at |-> 0]

WaitInit ==
    /\ wait_pc = "idle"
    /\ now = 0
    /\ wake = 0
    /\ deadline = NoDeadline
    /\ evaluations = 0
    /\ predicate = NoPredicate
    /\ wait_result = "none"

\* Strings that a function takes apart are sequences of characters; an
\* Option<String> is Absent or Some of one.
Absent == [some |-> FALSE, value |-> <<>>]
Some(s) == [some |-> TRUE, value |-> s]

\* Bounds on the length of the enumerated service CIDRs.
MaxIpv4CidrLen == 5
MaxIpv6CidrLen == 3

\* All strings over an alphabet up to a length.
StringsUpTo(alphabet, n) == UNION {[1..k -> alphabet] : k \in 0..n}

\* "10.100.0.0/16" and "fd30:1c53:5f8a::/108"
ExampleIpv4Cidr == <<"1", "0", ".", "1", "0", "0", ".", "0", ".", "0", "/", "1", "6">>
ExampleIpv6Cidr ==
    <<"f", "d", "3", "0", ":", "1", "c", "5", "3", ":", "5", "f", "8", "a", ":", ":",
      "/", "1", "0", "8">>

Ipv4Cidrs == StringsUpTo({"1", ".", "/"}, MaxIpv4CidrLen) \cup {ExampleIpv4Cidr}
Ipv6Cidrs == StringsUpTo({"f", ":", "/"}, MaxIpv6CidrLen) \cup {ExampleIpv6Cidr}

\* aws_sdk_eks::model::IpFamily: Ipv4, Ipv6, or a value the SDK does not know.
IpFamilies == {"Ipv4", "Ipv6", "Unknown"}

NoDnsIp == [kind |-> "none", value |-> <<>>, class |-> None, message |-> ""]

DnsInit ==
    /\ ip_family = None
    /\ service_ipv4_cidr = Absent
    /\ service_ipv6_cidr = Absent
    /\ dns_ip = NoDnsIp

\* The values of ProductionMemo the round trip is followed for.
Memos ==
    [current_status : {"", "Cluster ready"},
     aws_secret_name : Option(SecretNames),
     cluster_name : Option({"", "alpha"}),
     creation_policy : Option(CreationPolicy),
     region : Option({DEFAULT_REGION}),
     assume_role : Option(RoleArns),
     provisioning_started : BOOLEAN]

NotRead == [kind |-> "none", memo |-> DefaultMemo]

MemoInit ==
    /\ sent_memo = DefaultMemo
    /\ channel = <<>>
    /\ read_memo = NotRead

\* The agent process before TestAgent::new.
AgentInit ==
    /\ apc = "client_new"
    /\ agent = FALSE
    /\ test_info = None
    /\ test_results = None
    /\ error = NoError
    /\ pending = <<>>
    /\ returned = AgentNone
    /\ calls = <<>>

NoSpec ==
    [creation_policy |-> None, secret |-> None, assume_role |-> None,
     config |-> [kind |-> "File", valid |-> FALSE, cluster_name |-> None, region |-> None]]
NoArgs == [spec |-> FALSE, resource |-> FALSE, cluster_name |-> None, region |-> None]

\* The arguments of destroy: the spec and the prior resource may each be
\* absent; when one is present it names a cluster and its region.
DestroyArgs ==
    {NoArgs}
    \cup [spec : {TRUE}, resource : BOOLEAN,
          cluster_name : {"alpha"}, region : {DEFAULT_REGION}]
    \cup [spec : BOOLEAN, resource : {TRUE},
          cluster_name : {"beta"}, region : {"eu-west-1"}]

\* WorkloadConfig: how many tests (plugins) it lists and whether it names a
\* sonobuoy image.
MaxPlugins == 2
WorkloadConfigs == [tests : 0..MaxPlugins, sonobuoy_image : BOOLEAN]
NoWorkloadConfig == [tests |-> 0, sonobuoy_image |-> FALSE]

WorkloadNone == [kind |-> "none", error |-> None]
WorkloadOk == [kind |-> "ok", error |-> None]
WorkloadErr(e) == [kind |-> "err", error |-> e]

\* Before run_workload is called.
WorkloadInit ==
    /\ workload_pc = "start"
    /\ workload_config = NoWorkloadConfig
    /\ plugin_test_args = <<>>
    /\ workload_steps = <<>>
    /\ workload_result = WorkloadNone

\* Bound on the number of Cluster::new and drop operations followed.
MaxClusterOps == 3
KindNames == {"selftest", "other"}

KindNone == [kind |-> "none"]
KindOk == [kind |-> "ok"]
KindErr == [kind |-> "err"]

\* No operation has run and no kind cluster exists.
KindInit ==
    /\ kind_pc = "idle"
    /\ kind_op = "none"
    /\ kind_name = None
    /\ kind_clusters = {}
    /\ kind_objects = <<>>
    /\ kind_calls = <<>>
    /\ kind_result = KindNone
    /\ kind_logged = FALSE
    /\ kind_ops = 0

Init ==
    /\ store = DefaultMemo
    /\ cloud \in {{}, {<<"alpha", DEFAULT_REGION>>}}
    /\ pc = "idle"
    /\ op = "none"
    /\ spec = NoSpec
    /\ args = NoArgs
    /\ memo = DefaultMemo
    /\ cfg = NoResource
    /\ do_create = FALSE
    /\ resource = NoResource
    /\ result = NoResult
    /\ log = <<>>
    /\ prev = Outcome("none", NoResult, <<>>)
    /\ runs = 0
    /\ AgentInit
    /\ WaitInit
    /\ DnsInit
    /\ MemoInit
    /\ WorkloadInit
    /\ KindInit


\* ------------------------------------------------------- helper operators
\* One entry of the log.  op is "get_info", "send_info" or the external
\* operation invoked; out is how the call ended; a send_info entry carries the
\* status and the provisioning_started marker of the memo sent, an external
\* operation the cluster name and region it was invoked for.
Event(o, out, status, marker, n, r) ==
    [op |-> o, out |-> out, status |-> status, marker |-> marker,
     cluster_name |-> n, region |-> r]

OkOrErr(ok) == IF ok THEN "ok" ELSE "err"

GetInfo(ok) == Event("get_info", OkOrErr(ok), None, FALSE, None, None)

Sent(m, ok) ==
    Event("send_info", OkOrErr(ok), m.current_status, m.provisioning_started, None, None)

ExtOp(o, out, n, r) == Event(o, out, None, FALSE, n, r)

\* A run returns: the process ends and its result is what the caller sees.
Return(res) ==
    /\ pc' = "idle"
    /\ result' = res

\* Mutant: a failed send is not propagated; the run goes on to its next step.
Checkpoint_Continue(m, cls, next) ==
    \E ok \in BOOLEAN :
        /\ memo' = m
        /\ log' = Append(log, Sent(m, ok))
        /\ store' = IF ok THEN m ELSE store
        /\ pc' = next
        /\ result' = result

\* client.send_info(memo.clone()).await.context(cls, ..)?
\* The local memo has been modified to m; the send either succeeds (the Info
\* Channel now holds m, the process continues at next) or fails (the channel
\* is left as it was and the run returns an error classified cls).
Checkpoint(m, cls, next) ==
    \E ok \in BOOLEAN :
        /\ memo' = m
        /\ log' = Append(log, Sent(m, ok))
        /\ IF ok
              THEN /\ store' = m
                   /\ pc' = next
                   /\ result' = result
              ELSE /\ store' = store
                   /\ Return(Err(cls))

PolicyOrDefault(p) == IF p = None THEN DefaultCreationPolicy ELSE p

\* ClusterConfig::new: Args takes the region or DEFAULT_REGION; File decodes
\* the name and region of the metadata, or fails (Clear).
ClusterConfigNew(c) ==
    IF ~c.valid
        THEN [ok |-> FALSE, class |-> "Clear", cluster_name |-> None, region |-> None]
        ELSE [ok |-> TRUE, class |-> None, cluster_name |-> c.cluster_name,
              region |-> IF c.kind = "Args" /\ c.region = None
                            THEN DEFAULT_REGION ELSE c.region]

\* The memo as modified before each checkpoint of create.
MemoInitializing(m, s) ==
    [m EXCEPT !.current_status = "Initializing agent",
              !.creation_policy = PolicyOrDefault(s.creation_policy)]

MemoGettingSecret(m) == [m EXCEPT !.current_status = "Getting AWS secret"]

\* Mutant: the assumed role is not recorded.
MemoAwsConfig_NoRole(m, s) ==
    [m EXCEPT !.aws_secret_name = s.secret,
              !.current_status = "Creating AWS config"]

MemoAwsConfig(m, s) ==
    [m EXCEPT !.aws_secret_name = s.secret,
              !.assume_role = s.assume_role,
              !.current_status = "Creating AWS config"]

MemoDetermining(m) == [m EXCEPT !.current_status = "Determining cluster state"]

MemoMessage(m, msg) == [m EXCEPT !.current_status = msg]

\* Mutant: the marker is not set before the external create.
MemoCreating_NoMarker(m) == [m EXCEPT !.current_status = "Creating cluster"]

MemoCreating(m) ==
    [m EXCEPT !.current_status = "Creating cluster",
              !.provisioning_started = TRUE]

MemoCreationComplete(m) == [m EXCEPT !.current_status = "Cluster creation complete"]

MemoWritingKubeconfig(m) == [m EXCEPT !.current_status = "Writing cluster kubeconfig"]

\* Mutant: the cluster is announced ready before it has been read back.
MemoCollecting_Ready(m) == [m EXCEPT !.current_status = "Cluster ready"]

MemoCollecting(m) == [m EXCEPT !.current_status = "Collecting cluster info"]

\* Mutant: the final checkpoint records the default region, not the region
\* of the cluster config.
MemoReady_DefaultRegion(m, c) ==
    [m EXCEPT !.current_status = "Cluster ready",
              !.cluster_name = c.cluster_name,
              !.region = DEFAULT_REGION]

MemoReady(m, c) ==
    [m EXCEPT !.current_status = "Cluster ready",
              !.cluster_name = c.cluster_name,
              !.region = c.region]

\* The answers the EKS describe_cluster call can give for a cluster: the
\* truth, or a failure of the call that is not ResourceNotFound.
Describe(name, region) ==
    IF <<name, region>> \in cloud THEN {"found", "error"} ELSE {"not_found", "error"}

\* Mutant: any failure of the describe call is taken as "does not exist".
DoesClusterExist_ErrorIsAbsent(answer) ==
    IF answer = "found" THEN [ok |-> TRUE, exists |-> TRUE, class |-> None]
                        ELSE [ok |-> TRUE, exists |-> FALSE, class |-> None]

\* does_cluster_exist / not_found.
DoesClusterExist(answer) ==
    CASE answer = "not_found" -> [ok |-> TRUE, exists |-> FALSE, class |-> None]
      [] answer = "found"     -> [ok |-> TRUE, exists |-> TRUE, class |-> None]
      [] OTHER                -> [ok |-> FALSE, exists |-> FALSE, class |-> "Clear"]

\* bottlerocket_agents::is_cluster_creation_required (library code outside
\* src/): the policy combined with the observed existence.
IsClusterCreationRequired(exists, policy) ==
    CASE policy = "Create" /\ exists ->
            [ok |-> FALSE, class |-> "Clear", do_create |-> FALSE, message |-> ""]
      [] policy = "Never" /\ ~exists ->
            [ok |-> FALSE, class |-> "Clear", do_create |-> FALSE, message |-> ""]
      [] policy \in {"Create", "IfNotExists"} /\ ~exists ->
            [ok |-> TRUE, class |-> None, do_create |-> TRUE,
             message |-> "Cluster creation required"]
      [] OTHER ->
            [ok |-> TRUE, class |-> None, do_create |-> FALSE,
             message |-> "Cluster already exists"]

\* Mutant: a policy contradiction is not propagated; the cluster is created
\* when it is absent and reused when it exists.
IsEksClusterCreationRequired_Lenient(answer, policy) ==
    LET e == DoesClusterExist(answer) IN
    IF ~e.ok
        THEN [ok |-> FALSE, class |-> e.class, do_create |-> FALSE, message |-> ""]
        ELSE [ok |-> TRUE, class |-> None, do_create |-> ~e.exists,
              message |-> "Cluster creation required"]

\* Mutant: the error of does_cluster_exist is given a new classification on
\* its way to the caller.
IsEksClusterCreationRequired_Reclassify(answer, policy) ==
    LET e == DoesClusterExist(answer) IN
    IF ~e.ok
        THEN [ok |-> FALSE, class |-> "Unknown", do_create |-> FALSE, message |-> ""]
        ELSE IsClusterCreationRequired(e.exists, policy)

\* is_eks_cluster_creation_required: does_cluster_exist(..)? then the policy.
IsEksClusterCreationRequired(answer, policy) ==
    LET e == DoesClusterExist(answer) IN
    IF ~e.ok
        THEN [ok |-> FALSE, class |-> e.class, do_create |-> FALSE, message |-> ""]
        ELSE IsClusterCreationRequired(e.exists, policy)

\* ClusterConfig::create_cluster: the classification of each way it fails.
CreateClusterOutcomes(kind) ==
    (IF kind = "Args" THEN {"yaml_error"} ELSE {})
        \cup {"spawn_error", "exit_failure", "success"}

CreateClusterClass(outcome) ==
    CASE outcome = "yaml_error"   -> "Clear"
      [] outcome = "spawn_error"  -> "Clear"
      [] outcome = "exit_failure" -> "Clear"
      [] OTHER                    -> None

\* ---------------------------------------------------------------- create
\* The resource agent starts a create run with a spec.
StartCreate ==
    /\ pc = "idle"
    /\ runs < MaxRuns
    /\ \E s \in SpecInputs : spec' = s
    /\ pc' = "c_get_info"
    /\ op' = "create"
    /\ prev' = Outcome(op, result, log)
    /\ runs' = runs + 1
    /\ args' = NoArgs
    /\ memo' = DefaultMemo
    /\ cfg' = NoResource
    /\ do_create' = FALSE
    /\ resource' = NoResource
    /\ result' = NoResult
    /\ log' = <<>>
    /\ UNCHANGED <<nonProviderVars, store, cloud>>

\* let mut memo = client.get_info().await.context(Resources::Clear, ..)?
CreateGetInfo ==
    /\ pc = "c_get_info"
    /\ \E ok \in BOOLEAN :
        /\ log' = Append(log, GetInfo(ok))
        /\ IF ok THEN /\ memo' = store
                      /\ pc' = "c_initializing"
                      /\ result' = result
                 ELSE /\ memo' = memo
                      /\ Return(Err("Clear"))
    /\ UNCHANGED <<nonProviderVars, store, cloud, op, spec, args, cfg, do_create, resource, prev, runs>>

\* "Initializing agent": record the creation policy and checkpoint.
CreateInitializing ==
    /\ pc = "c_initializing"
    /\ Checkpoint(MemoInitializing(memo, spec), "Clear", "c_cluster_config")
    /\ UNCHANGED <<nonProviderVars, cloud, op, spec, args, cfg, do_create, resource, prev, runs>>

\* let cluster_config = ClusterConfig::new(spec.configuration.config)?
CreateClusterConfig ==
    /\ pc = "c_cluster_config"
    /\ LET c == ClusterConfigNew(spec.config) IN
        IF c.ok THEN /\ cfg' = [cluster_name |-> c.cluster_name, region |-> c.region]
                     /\ pc' = "c_getting_secret"
                     /\ result' = result
                ELSE /\ cfg' = cfg
                     /\ Return(Err(c.class))
    /\ UNCHANGED <<nonProviderVars, store, cloud, op, spec, args, memo, do_create, resource,
                   log, prev, runs>>

\* "Getting AWS secret"
CreateGettingSecret ==
    /\ pc = "c_getting_secret"
    /\ Checkpoint(MemoGettingSecret(memo), "Clear", "c_creating_aws_config")
    /\ UNCHANGED <<nonProviderVars, cloud, op, spec, args, cfg, do_create, resource, prev, runs>>

\* Record the secret name and the assumed role; "Creating AWS config".
CreateCreatingAwsConfig ==
    /\ pc = "c_creating_aws_config"
    /\ Checkpoint(MemoAwsConfig(memo, spec), "Clear", "c_shared_config")
    /\ UNCHANGED <<nonProviderVars, cloud, op, spec, args, cfg, do_create, resource, prev, runs>>

\* aws_config(secret, assume_role, .., region, ..).context(Resources::Clear, ..)?
\* called for the shared config (at = "c_shared_config") and for the EKS
\* client config (at = "c_eks_sdk_config").
AwsConfigStep(at, next) ==
    /\ pc = at
    /\ \E ok \in BOOLEAN :
        /\ log' = Append(log, ExtOp("aws_config", OkOrErr(ok), None, cfg.region))
        /\ IF ok THEN /\ pc' = next
                      /\ result' = result
                 ELSE Return(Err("Clear"))
    /\ UNCHANGED <<nonProviderVars, store, cloud, op, spec, args, memo, cfg, do_create, resource,
                   prev, runs>>

CreateSharedConfig == AwsConfigStep("c_shared_config", "c_eks_sdk_config")

CreateEksSdkConfig == AwsConfigStep("c_eks_sdk_config", "c_determining")

\* "Determining cluster state"
CreateDetermining ==
    /\ pc = "c_determining"
    /\ Checkpoint(MemoDetermining(memo), "Clear", "c_creation_required")
    /\ UNCHANGED <<nonProviderVars, cloud, op, spec, args, cfg, do_create, resource, prev, runs>>

\* let (do_create, message) = is_eks_cluster_creation_required(..).await?;
\* memo.current_status = message;   (its checkpoint is the next step)
CreateCreationRequired ==
    /\ pc = "c_creation_required"
    /\ \E answer \in Describe(cfg.cluster_name, cfg.region) :
        LET r == IsEksClusterCreationRequired(answer,
                                              PolicyOrDefault(spec.creation_policy)) IN
        /\ log' = Append(log, ExtOp("describe_cluster", answer,
                                    cfg.cluster_name, cfg.region))
        /\ IF r.ok THEN /\ do_create' = r.do_create
                        /\ memo' = MemoMessage(memo, r.message)
                        /\ pc' = "c_message"
                        /\ result' = result
                   ELSE /\ do_create' = do_create
                        /\ memo' = memo
                        /\ Return(Err(r.class))
    /\ UNCHANGED <<nonProviderVars, store, cloud, op, spec, args, cfg, resource, prev, runs>>

CreateMessage ==
    /\ pc = "c_message"
    /\ Checkpoint(memo, "Clear",
                  IF do_create THEN "c_creating_cluster" ELSE "c_writing_kubeconfig")
    /\ UNCHANGED <<nonProviderVars, cloud, op, spec, args, cfg, do_create, resource, prev, runs>>

\* if do_create: "Creating cluster", provisioning_started = true, checkpoint.
CreateCreatingCluster ==
    /\ pc = "c_creating_cluster"
    /\ Checkpoint(MemoCreating(memo), "Clear", "c_create_cluster")
    /\ UNCHANGED <<nonProviderVars, cloud, op, spec, args, cfg, do_create, resource, prev, runs>>

\* cluster_config.create_cluster()?  (eksctl create cluster -f <config>)
\* A failed eksctl run may or may not have left the cluster behind.
CreateCreateCluster ==
    /\ pc = "c_create_cluster"
    /\ \E outcome \in CreateClusterOutcomes(spec.config.kind) :
        /\ log' = IF outcome = "yaml_error" THEN log
                  ELSE Append(log, ExtOp("eksctl_create", outcome,
                                         cfg.cluster_name, cfg.region))
        /\ CASE outcome = "success" ->
                    /\ cloud' = cloud \cup {<<cfg.cluster_name, cfg.region>>}
                    /\ pc' = "c_creation_complete"
                    /\ result' = result
             [] outcome = "exit_failure" ->
                    /\ cloud' \in {cloud, cloud \cup {<<cfg.cluster_name, cfg.region>>}}
                    /\ Return(Err(CreateClusterClass(outcome)))
             [] OTHER ->
                    /\ cloud' = cloud
                    /\ Return(Err(CreateClusterClass(outcome)))
    /\ UNCHANGED <<nonProviderVars, store, op, spec, args, memo, cfg, do_create, resource, prev, runs>>

\* "Cluster creation complete"
CreateCreationComplete ==
    /\ pc = "c_creation_complete"
    /\ Checkpoint(MemoCreationComplete(memo), "Remaining", "c_writing_kubeconfig")
    /\ UNCHANGED <<nonProviderVars, cloud, op, spec, args, cfg, do_create, resource, prev, runs>>

\* "Writing cluster kubeconfig"
CreateWritingKubeconfig ==
    /\ pc = "c_writing_kubeconfig"
    /\ Checkpoint(MemoWritingKubeconfig(memo), "Remaining", "c_write_kubeconfig")
    /\ UNCHANGED <<nonProviderVars, cloud, op, spec, args, cfg, do_create, resource, prev, runs>>

\* write_kubeconfig(..)? (aws eks update-kubeconfig) and reading the file
\* back: every failure is Remaining.
CreateWriteKubeconfig ==
    /\ pc = "c_write_kubeconfig"
    /\ \E ok \in BOOLEAN :
        /\ log' = Append(log, ExtOp("update_kubeconfig", OkOrErr(ok),
                                    cfg.cluster_name, cfg.region))
        /\ IF ok THEN /\ pc' = "c_collecting"
                      /\ result' = result
                 ELSE Return(Err("Remaining"))
    /\ UNCHANGED <<nonProviderVars, store, cloud, op, spec, args, memo, cfg, do_create, resource,
                   prev, runs>>

\* "Collecting cluster info"
CreateCollecting ==
    /\ pc = "c_collecting"
    /\ Checkpoint(MemoCollecting(memo), "Remaining", "c_created_cluster")
    /\ UNCHANGED <<nonProviderVars, cloud, op, spec, args, cfg, do_create, resource, prev, runs>>

\* The answers created_cluster can get: those of describe_cluster, or the
\* cluster is described but it lacks a field or a dependent lookup (subnets,
\* CloudFormation stack, instance profile) fails.
ReadBack(name, region) ==
    Describe(name, region)
        \cup (IF <<name, region>> \in cloud THEN {"lookup_error"} ELSE {})

\* Mutant: the resource description is built from the cluster config without
\* regard to the answer of the external system.
CreatedCluster_FromLocal(answer, c) ==
    [ok |-> TRUE, class |-> None,
     resource |-> [cluster_name |-> c.cluster_name, region |-> c.region]]

\* created_cluster: the description is produced only when the describe and
\* every dependent lookup succeeded; every failure is Remaining.
CreatedCluster(answer, c) ==
    IF answer = "found"
        THEN [ok |-> TRUE, class |-> None,
              resource |-> [cluster_name |-> c.cluster_name, region |-> c.region]]
        ELSE [ok |-> FALSE, class |-> "Remaining", resource |-> NoResource]

\* let created_cluster = created_cluster(..).await?
CreateCreatedCluster ==
    /\ pc = "c_created_cluster"
    /\ \E answer \in ReadBack(cfg.cluster_name, cfg.region) :
        LET r == CreatedCluster(answer, cfg) IN
        /\ log' = Append(log, ExtOp("describe_cluster", answer,
                                    cfg.cluster_name, cfg.region))
        /\ IF r.ok
              THEN /\ resource' = r.resource
                   /\ pc' = "c_ready"
                   /\ result' = result
              ELSE /\ resource' = resource
                   /\ Return(Err(r.class))
    /\ UNCHANGED <<nonProviderVars, store, cloud, op, spec, args, memo, cfg, do_create, prev, runs>>

\* What create returns after the final checkpoint was attempted.
ReadyResult(ok, r) == IF ok THEN Ok(r) ELSE Err("Remaining")

\* "Cluster ready": record cluster name and region, checkpoint, and return
\* the resource description.
CreateReady ==
    /\ pc = "c_ready"
    /\ \E ok \in BOOLEAN :
        LET m == MemoReady(memo, cfg) IN
        /\ memo' = m
        /\ log' = Append(log, Sent(m, ok))
        /\ store' = IF ok THEN m ELSE store
        /\ Return(ReadyResult(ok, resource))
    /\ UNCHANGED <<nonProviderVars, cloud, op, spec, args, cfg, do_create, resource, prev, runs>>

\* --------------------------------------------------------------- destroy
\* Mutant: the no-op test looks at the cluster name instead of the marker.
NothingToDestroy_ByName(m) == m.cluster_name = None

\* if !memo.provisioning_started { return Ok(()) }
NothingToDestroy(m) == ~m.provisioning_started

\* let region = memo.region.unwrap_or_else(|| DEFAULT_REGION)
DestroyRegion(m) == IF m.region = None THEN DEFAULT_REGION ELSE m.region

\* Mutant: the prior resource, when given, names the cluster to delete.
DestroyCluster_FromResource(m, a) ==
    IF a.resource THEN <<a.cluster_name, a.region>>
                  ELSE <<m.cluster_name, DestroyRegion(m)>>

\* The cluster eksctl delete is invoked for: name and region of the memo;
\* the spec and prior resource arguments are not looked at.
DestroyCluster(m, a) == <<m.cluster_name, DestroyRegion(m)>>

\* The eksctl delete command: the classification of each way it fails.
DeleteClusterClass(outcome) ==
    CASE outcome = "spawn_error"  -> "Remaining"
      [] outcome = "exit_failure" -> "Orphaned"
      [] OTHER                    -> None

\* The classification of an aws_config failure in destroy.
DestroyAwsConfigClass == "Clear"

\* The classification of a missing cluster name in destroy.
DestroyNoNameClass == "Unknown"

\* Mutant: the terminal memo is built from the default memo.
MemoDeleted_Fresh(m) == [DefaultMemo EXCEPT !.current_status = "Cluster deleted"]

MemoDeleted(m) == [m EXCEPT !.current_status = "Cluster deleted"]

\* The resource agent starts a destroy run; its spec and prior resource
\* arguments may each be present or absent.
StartDestroy ==
    /\ pc = "idle"
    /\ runs < MaxRuns
    /\ \E a \in DestroyArgs : args' = a
    /\ pc' = "d_get_info"
    /\ op' = "destroy"
    /\ prev' = Outcome(op, result, log)
    /\ runs' = runs + 1
    /\ spec' = NoSpec
    /\ memo' = DefaultMemo
    /\ cfg' = NoResource
    /\ do_create' = FALSE
    /\ resource' = NoResource
    /\ result' = NoResult
    /\ log' = <<>>
    /\ UNCHANGED <<nonProviderVars, store, cloud>>

\* get_info (failure: Remaining), the provisioning_started check and the
\* cluster name lookup: everything before the first external call.
DestroyGetInfo ==
    /\ pc = "d_get_info"
    /\ \E ok \in BOOLEAN :
        /\ log' = Append(log, GetInfo(ok))
        /\ IF ~ok
              THEN /\ memo' = memo
                   /\ Return(Err("Remaining"))
              ELSE /\ memo' = store
                   /\ IF NothingToDestroy(store)
                         THEN Return(Ok(NoResource))
                         ELSE IF store.cluster_name = None
                                 THEN Return(Err(DestroyNoNameClass))
                                 ELSE /\ pc' = "d_aws_config"
                                      /\ result' = result
    /\ UNCHANGED <<nonProviderVars, store, cloud, op, spec, args, cfg, do_create, resource, prev, runs>>

\* aws_config(memo.aws_secret_name, memo.assume_role, .., memo.region, ..)
DestroyAwsConfig ==
    /\ pc = "d_aws_config"
    /\ \E ok \in BOOLEAN :
        /\ log' = Append(log, ExtOp("aws_config", OkOrErr(ok), None, memo.region))
        /\ IF ok THEN /\ pc' = "d_delete_cluster"
                      /\ result' = result
                 ELSE Return(Err(DestroyAwsConfigClass))
    /\ UNCHANGED <<nonProviderVars, store, cloud, op, spec, args, memo, cfg, do_create, resource,
                   prev, runs>>

\* eksctl delete cluster --name <cluster_name> -r <region>
\* A failed eksctl run may or may not have removed the cluster.
DestroyDeleteCluster ==
    /\ pc = "d_delete_cluster"
    /\ LET c == DestroyCluster(memo, args) IN
       \E outcome \in {"spawn_error", "exit_failure", "success"} :
          /\ log' = Append(log, ExtOp("eksctl_delete", outcome, c[1], c[2]))
          /\ CASE outcome = "success" ->
                    /\ cloud' = cloud \ {c}
                    /\ pc' = "d_deleted"
                    /\ result' = result
               [] outcome = "exit_failure" ->
                    /\ cloud' \in {cloud, cloud \ {c}}
                    /\ Return(Err(DeleteClusterClass(outcome)))
               [] OTHER ->
                    /\ cloud' = cloud
                    /\ Return(Err(DeleteClusterClass(outcome)))
    /\ UNCHANGED <<nonProviderVars, store, op, spec, args, memo, cfg, do_create, resource, prev, runs>>

\* Mutant: a failure of the terminal send is returned as an error.
DeletedResult_Strict(ok) == IF ok THEN Ok(NoResource) ELSE Err("Orphaned")

\* What destroy returns after the terminal send was attempted.
DeletedResult(ok) == Ok(NoResource)

\* "Cluster deleted": the send is attempted and its failure only logged.
DestroyDeleted ==
    /\ pc = "d_deleted"
    /\ \E ok \in BOOLEAN :
        LET m == MemoDeleted(memo) IN
        /\ memo' = m
        /\ log' = Append(log, Sent(m, ok))
        /\ store' = IF ok THEN m ELSE store
        /\ Return(DeletedResult(ok))
    /\ UNCHANGED <<nonProviderVars, cloud, op, spec, args, cfg, do_create, resource, prev, runs>>

\* ----------------------------------------------------------------- abort
\* The agent process is killed at its current position.
Abort ==
    /\ pc # "idle"
    /\ Return(Aborted)
    /\ UNCHANGED <<nonProviderVars, store, cloud, op, spec, args, memo, cfg, do_create, resource,
                   log, prev, runs>>

\* The agent process is killed while eksctl create cluster is running: the
\* cluster may or may not have come into existence.
AbortInCreateCluster ==
    /\ pc = "c_create_cluster"
    /\ log' = Append(log, ExtOp("eksctl_create", "killed", cfg.cluster_name, cfg.region))
    /\ cloud' \in {cloud, cloud \cup {<<cfg.cluster_name, cfg.region>>}}
    /\ Return(Aborted)
    /\ UNCHANGED <<nonProviderVars, store, op, spec, args, memo, cfg, do_create, resource, prev, runs>>

Next ==
    \/ StartCreate
    \/ CreateGetInfo
    \/ CreateInitializing
    \/ CreateClusterConfig
    \/ CreateGettingSecret
    \/ CreateCreatingAwsConfig
    \/ CreateSharedConfig
    \/ CreateEksSdkConfig
    \/ CreateDetermining
    \/ CreateCreationRequired
    \/ CreateMessage
    \/ CreateCreatingCluster
    \/ CreateCreateCluster
    \/ CreateCreationComplete
    \/ CreateWritingKubeconfig
    \/ CreateWriteKubeconfig
    \/ CreateCollecting
    \/ CreateCreatedCluster
    \/ CreateReady
    \/ StartDestroy
    \/ DestroyGetInfo
    \/ DestroyAwsConfig
    \/ DestroyDeleteCluster
    \/ DestroyDeleted
    \/ Abort
    \/ AbortInCreateCluster

Spec == Init /\ [][Next]_vars

\* --------------------------------------------------------- the test agent
\* One call on the client or the runner: how it ended, the error it returned,
\* the error it was given (send_error) and the data it returned or was given.
Call(c, ok, e, a, d) ==
    [call |-> c, out |-> OkOrErr(ok), err |-> IF ok THEN NoError ELSE e,
     arg |-> a, data |-> d]

BestEffortStep(c, e) == [call |-> c, arg |-> e]

\* Mutant: a failed send_test_starting is reported with send_error.
BestEffort_Notify(phase, e) ==
    IF phase = "terminate" THEN <<BestEffortStep("send_error", e)>>
    ELSE IF phase = "send_test_starting" THEN <<BestEffortStep("send_error", e)>>
    ELSE <<BestEffortStep("send_error", e), BestEffortStep("terminate", e)>>

\* Mutant: a failed send_test_done is reported but the runner is not
\* terminated.
BestEffort_NoTerminate(phase, e) ==
    IF phase = "send_test_starting" THEN <<>>
    ELSE IF phase = "runner_run"
        THEN <<BestEffortStep("send_error", e), BestEffortStep("terminate", e)>>
    ELSE <<BestEffortStep("send_error", e)>>

\* Mutant: a failed graceful termination is reported twice.
BestEffort_Twice(phase, e) ==
    IF phase = "send_test_starting" THEN <<>>
    ELSE IF phase = "terminate"
        THEN <<BestEffortStep("send_error", e), BestEffortStep("send_error", e)>>
    ELSE <<BestEffortStep("send_error", e), BestEffortStep("terminate", e)>>

\* Mutant: a failed graceful termination is reported and then retried
\* best-effort.
BestEffort_TerminateAgain(phase, e) ==
    IF phase = "send_test_starting" THEN <<>>
    ELSE <<BestEffortStep("send_error", e), BestEffortStep("terminate", e)>>

\* What run does between observing the failure e of a phase and returning
\* Err(e): nothing after send_test_starting, send_error_best_effort(&e) and
\* terminate_best_effort() after runner.run and send_test_done,
\* send_error_best_effort(&e) after the graceful runner.terminate.
BestEffort(phase, e) ==
    IF phase = "send_test_starting" THEN <<>>
    ELSE IF phase = "terminate" THEN <<BestEffortStep("send_error", e)>>
    ELSE <<BestEffortStep("send_error", e), BestEffortStep("terminate", e)>>

\* Mutant: a failed best-effort termination is not reported.
TerminateFailed_Silent(e) == <<>>

\* terminate_best_effort: the error of runner.terminate is sent with
\* send_error_best_effort.
TerminateFailed(e) == <<BestEffortStep("send_error", e)>>

\* Mutant: the error of the best-effort termination replaces the one run
\* returns.
ErrorAfterTerminate_Last(e, e2) == e2

\* The e of terminate_best_effort is local to it: run still returns its own.
ErrorAfterTerminate(e, e2) == e

\* Mutant: run goes from send_test_starting straight to send_test_done.
NextPhase_Skip(phase) ==
    IF phase = "send_test_starting" THEN "send_test_done"
    ELSE IF phase = "runner_run" THEN "send_test_done"
    ELSE "terminate"

\* The phase run enters when a phase succeeded: the statements of run in
\* their order.
NextPhase(phase) ==
    IF phase = "send_test_starting" THEN "runner_run"
    ELSE IF phase = "runner_run" THEN "send_test_done"
    ELSE "terminate"

\* The remaining best-effort calls are made, then run returns Err(e).
Proceed(steps, e) ==
    /\ pending' = steps
    /\ error' = e
    /\ IF steps = <<>>
          THEN /\ apc' = "done"
               /\ returned' = AgentErr(e)
          ELSE /\ apc' = "best_effort"
               /\ returned' = returned

\* A phase of run failed with e.
Fail(phase, e) == Proceed(BestEffort(phase, e), e)

\* Mutant: a failure of new is reported with send_error before new returns.
FailNew_Notify(e) ==
    /\ apc' = "best_effort"
    /\ pending' = <<BestEffortStep("send_error", e)>>
    /\ error' = e
    /\ UNCHANGED <<agent, returned>>

\* new failed with e: no TestAgent.
FailNew(e) ==
    /\ apc' = "done"
    /\ returned' = AgentErr(e)
    /\ UNCHANGED <<agent, error, pending>>

\* let client = C::new(b).await.map_err(|e| Error::Client(e))?;
ClientNew ==
    /\ apc = "client_new"
    /\ \E ok \in BOOLEAN, id \in ErrorIds :
        LET e == ClientError("client_new", id) IN
        /\ calls' = Append(calls, Call("client_new", ok, e, NoError, None))
        /\ IF ok THEN /\ apc' = "get_test_info"
                      /\ UNCHANGED <<agent, error, pending, returned>>
                 ELSE FailNew(e)
    /\ UNCHANGED <<nonAgentVars, test_info, test_results>>

\* let test_info = client.get_test_info().await.map_err(|e| Error::Client(e))?;
GetTestInfo ==
    /\ apc = "get_test_info"
    /\ \E ok \in BOOLEAN, id \in ErrorIds, info \in TestInfos :
        LET e == ClientError("get_test_info", id) IN
        /\ calls' = Append(calls, Call("get_test_info", ok, e, NoError,
                                       IF ok THEN info ELSE None))
        /\ IF ok THEN /\ apc' = "runner_new"
                      /\ test_info' = info
                      /\ UNCHANGED <<agent, error, pending, returned>>
                 ELSE /\ FailNew(e)
                      /\ test_info' = test_info
    /\ UNCHANGED <<nonAgentVars, test_results>>

\* let runner = R::new(test_info).await.map_err(|e| Error::Runner(e))?;
\* Ok(Self { runner, client }); the caller then calls run.
RunnerNew ==
    /\ apc = "runner_new"
    /\ \E ok \in BOOLEAN, id \in ErrorIds :
        LET e == RunnerError("runner_new", id) IN
        /\ calls' = Append(calls, Call("runner_new", ok, e, NoError, test_info))
        /\ IF ok THEN /\ apc' = "send_test_starting"
                      /\ agent' = TRUE
                      /\ UNCHANGED <<error, pending, returned>>
                 ELSE FailNew(e)
    /\ UNCHANGED <<nonAgentVars, test_info, test_results>>

\* self.client.send_test_starting().await.map_err(|e| error::Error::Client(e))?;
SendTestStarting ==
    /\ apc = "send_test_starting"
    /\ \E ok \in BOOLEAN, id \in ErrorIds :
        LET e == ClientError("send_test_starting", id) IN
        /\ calls' = Append(calls, Call("send_test_starting", ok, e, NoError, None))
        /\ IF ok THEN /\ apc' = NextPhase("send_test_starting")
                      /\ UNCHANGED <<error, pending, returned>>
                 ELSE Fail("send_test_starting", e)
    /\ UNCHANGED <<nonAgentVars, agent, test_info, test_results>>

\* match self.runner.run().await.map_err(|e| error::Error::Runner(e))
RunnerRun ==
    /\ apc = "runner_run"
    /\ \E ok \in BOOLEAN, id \in ErrorIds, r \in TestResults :
        LET e == RunnerError("runner_run", id) IN
        /\ calls' = Append(calls, Call("runner_run", ok, e, NoError,
                                       IF ok THEN r ELSE None))
        /\ IF ok THEN /\ apc' = NextPhase("runner_run")
                      /\ test_results' = r
                      /\ UNCHANGED <<error, pending, returned>>
                 ELSE /\ Fail("runner_run", e)
                      /\ test_results' = test_results
    /\ UNCHANGED <<nonAgentVars, agent, test_info>>

\* self.client.send_test_done(test_results).await.map_err(|e| error::Error::Client(e))
SendTestDone ==
    /\ apc = "send_test_done"
    /\ \E ok \in BOOLEAN, id \in ErrorIds :
        LET e == ClientError("send_test_done", id) IN
        /\ calls' = Append(calls, Call("send_test_done", ok, e, NoError, test_results))
        /\ IF ok THEN /\ apc' = NextPhase("send_test_done")
                      /\ UNCHANGED <<error, pending, returned>>
                 ELSE Fail("send_test_done", e)
    /\ UNCHANGED <<nonAgentVars, agent, test_info, test_results>>

\* The graceful self.runner.terminate() of run, then Ok(()).
RunnerTerminate ==
    /\ apc = "terminate"
    /\ \E ok \in BOOLEAN, id \in ErrorIds :
        LET e == RunnerError("terminate", id) IN
        /\ calls' = Append(calls, Call("terminate", ok, e, NoError, None))
        /\ IF ok THEN /\ apc' = "done"
                      /\ returned' = AgentOk
                      /\ UNCHANGED <<error, pending>>
                 ELSE Fail("terminate", e)
    /\ UNCHANGED <<nonAgentVars, agent, test_info, test_results>>

\* send_error_best_effort(&e): a failure of send_error is only logged.
SendErrorBestEffort ==
    /\ apc = "best_effort"
    /\ Head(pending).call = "send_error"
    /\ \E ok \in BOOLEAN, id \in ErrorIds :
        /\ calls' = Append(calls, Call("send_error", ok, ClientError("send_error", id),
                                       Head(pending).arg, None))
        /\ Proceed(Tail(pending), error)
    /\ UNCHANGED <<nonAgentVars, agent, test_info, test_results>>

\* terminate_best_effort(): a failure of runner.terminate is sent with
\* send_error_best_effort and nothing more.
TerminateBestEffort ==
    /\ apc = "best_effort"
    /\ Head(pending).call = "terminate"
    /\ \E ok \in BOOLEAN, id \in ErrorIds :
        LET e2 == RunnerError("terminate", id) IN
        /\ calls' = Append(calls, Call("terminate", ok, e2, NoError, None))
        /\ IF ok THEN Proceed(Tail(pending), error)
                 ELSE Proceed(TerminateFailed(e2) \o Tail(pending),
                              ErrorAfterTerminate(error, e2))
    /\ UNCHANGED <<nonAgentVars, agent, test_info, test_results>>

AgentNext ==
    \/ ClientNew
    \/ GetTestInfo
    \/ RunnerNew
    \/ SendTestStarting
    \/ RunnerRun
    \/ SendTestDone
    \/ RunnerTerminate
    \/ SendErrorBestEffort
    \/ TerminateBestEffort

\* The agent process alone; the provider does not run.
AgentSpecInit == Init /\ cloud = {}

AgentSpec == AgentSpecInit /\ [][AgentNext]_vars

\* ---------------------------------------------------------- the poll loop
\* is_controller_running().await? / is_test_running(test_name).await? at the
\* k-th evaluation.
Answer(p, k) ==
    IF k = p.err_at THEN "error"
    ELSE IF p.true_at # 0 /\ k >= p.true_at THEN "true"
    ELSE "false"

\* Mutant: the loop sleeps and asks again whatever the predicate answered
\* first.
AfterEvaluation_Retry(answer, k) ==
    IF k = 1 THEN "sleeping"
    ELSE IF answer = "true" THEN "ok"
    ELSE IF answer = "error" THEN "err"
    ELSE "sleeping"

\* Mutant: an error of the predicate is retried like "not ready".
AfterEvaluation_RetryError(answer, k) ==
    IF answer = "true" THEN "ok" ELSE "sleeping"

\* The body of the loop after its k-th evaluation: Ok(true) returns Ok(()),
\* Err returns the error ('?'), Ok(false) sleeps.
AfterEvaluation(answer, k) ==
    IF answer = "true" THEN "ok"
    ELSE IF answer = "error" THEN "err"
    ELSE "sleeping"

\* Mutant: the timeout never takes the future away.
InnerReady_NoDeadline(w, d) == TRUE

\* tokio::time::timeout polls the wrapped future first: the loop goes on when
\* the await it is suspended at completes no later than the deadline.
InnerReady(w, d) == d = NoDeadline \/ w <= d

\* wait_for_controller(duration) / wait_for_test_pod(test_name, duration), or
\* the loop called alone: the first evaluation starts.
WaitStart ==
    /\ wait_pc = "idle"
    /\ \E p \in Predicates, d \in Durations \cup {NoDeadline}, t \in EvaluationMillis :
        /\ predicate' = p
        /\ deadline' = d
        /\ wake' = now + t
    /\ wait_pc' = "evaluating"
    /\ UNCHANGED <<nonWaitVars, now, evaluations, wait_result>>

\* The predicate answers; the loop returns or goes to sleep.
Evaluate ==
    /\ wait_pc = "evaluating"
    /\ evaluations < MaxEvaluations
    /\ InnerReady(wake, deadline)
    /\ now' = wake
    /\ evaluations' = evaluations + 1
    /\ LET after == AfterEvaluation(Answer(predicate, evaluations + 1), evaluations + 1) IN
          IF after = "sleeping"
              THEN /\ wait_pc' = "sleeping"
                   /\ wake' = wake + SLEEP_MILLIS
                   /\ wait_result' = wait_result
              ELSE /\ wait_pc' = "done"
                   /\ wake' = wake
                   /\ wait_result' = after
    /\ UNCHANGED <<nonWaitVars, deadline, predicate>>

\* The sleep is over; the next evaluation starts.
Sleep ==
    /\ wait_pc = "sleeping"
    /\ InnerReady(wake, deadline)
    /\ now' = wake
    /\ \E t \in EvaluationMillis : wake' = wake + t
    /\ wait_pc' = "evaluating"
    /\ UNCHANGED <<nonWaitVars, deadline, evaluations, predicate, wait_result>>

\* The duration elapsed while the loop was suspended: the loop is dropped and
\* the caller gets the timeout error.
Timeout ==
    /\ wait_pc \in {"evaluating", "sleeping"}
    /\ ~InnerReady(wake, deadline)
    /\ now' = deadline
    /\ wait_pc' = "done"
    /\ wait_result' = "timeout"
    /\ UNCHANGED <<nonWaitVars, wake, deadline, evaluations, predicate>>

WaitNext ==
    \/ WaitStart
    \/ Evaluate
    \/ Sleep
    \/ Timeout

WaitSpecInit == Init /\ cloud = {}

WaitSpec == WaitSpecInit /\ [][WaitNext]_vars

\* The runtime keeps polling the future and its timer.
WaitFairSpec == WaitSpec /\ WF_vars(WaitNext)

\* ------------------------------------- service_ip_cidr_to_cluster_dns_ip
DnsOk(s) == [kind |-> "ok", value |-> s, class |-> None, message |-> ""]
DnsErr(c, msg) == [kind |-> "err", value |-> <<>>, class |-> c, message |-> msg]
DnsPanic == [kind |-> "panic", value |-> <<>>, class |-> None, message |-> ""]

RECURSIVE Split_SkipEmpty(_, _)
\* Mutant: a split that drops empty pieces.
Split_SkipEmpty(s, sep) ==
    IF \A i \in 1..Len(s) : s[i] # sep
        THEN IF s = <<>> THEN <<>> ELSE <<s>>
        ELSE LET i == CHOOSE i \in 1..Len(s) :
                          s[i] = sep /\ \A j \in 1..(i - 1) : s[j] # sep
                 rest == Split_SkipEmpty(SubSeq(s, i + 1, Len(s)), sep)
             IN IF i = 1 THEN rest ELSE <<SubSeq(s, 1, i - 1)>> \o rest

RECURSIVE Split(_, _)
\* str::split(sep).collect::<Vec<&str>>(): the pieces between the
\* separators, empty pieces included; always at least one piece.
Split(s, sep) ==
    IF \A i \in 1..Len(s) : s[i] # sep
        THEN <<s>>
        ELSE LET i == CHOOSE i \in 1..Len(s) :
                          s[i] = sep /\ \A j \in 1..(i - 1) : s[j] # sep
             IN <<SubSeq(s, 1, i - 1)>> \o Split(SubSeq(s, i + 1, Len(s)), sep)

RECURSIVE Join(_, _)
\* [&str]::join(sep)
Join(pieces, sep) ==
    IF pieces = <<>> THEN <<>>
    ELSE IF Len(pieces) = 1 THEN pieces[1]
    ELSE pieces[1] \o <<sep>> \o Join(Tail(pieces), sep)

\* vec[i]: panics when i is out of bounds (i counts from 0).
Indexable(v, i) == i + 1 \in 1..Len(v)

\* Mutant: only a CIDR with fewer than 4 components is refused.
WrongComponentCount_TooFew(n) == n < 4

\* if cidr_split.len() != 4
WrongComponentCount(n) == n # 4

\* Mutant: the last component is kept.
ReplaceLast_Keep(cidr_split) == cidr_split

\* cidr_split[3] = "10";
ReplaceLast(cidr_split) == [cidr_split EXCEPT ![4] = <<"1", "0">>]

\* service_ip_cidr_to_cluster_dns_ip(ip_family, service_ipv4_cidr,
\* service_ipv6_cidr)
ServiceIpCidrToClusterDnsIp(family, v4, v6) ==
    IF family = None
        THEN DnsErr("Remaining", "Cluster network config missing IP family information")
    ELSE IF family = "Ipv6"
        THEN IF ~v6.some
                THEN DnsErr("Remaining", "IPv6 Cluster missing serviceIPv6CIDR information")
                ELSE LET pieces == Split(v6.value, "/") IN
                     IF ~Indexable(pieces, 0) THEN DnsPanic
                     ELSE DnsOk(pieces[1] \o <<"a">>)
    ELSE IF ~v4.some
        THEN DnsErr("Remaining", "IPv4 Cluster missing serviceIPv4CIDR information")
    ELSE LET cidr_split == Split(v4.value, ".") IN
         IF WrongComponentCount(Len(cidr_split))
             THEN DnsErr("Remaining", "Expected 4 components in serviceIPv4CIDR but found")
         ELSE IF ~Indexable(cidr_split, 3) THEN DnsPanic
         ELSE DnsOk(Join(ReplaceLast(cidr_split), "."))

\* The function is applied to one network configuration.
ClusterDnsIp ==
    /\ dns_ip = NoDnsIp
    /\ \E family \in Option(IpFamilies),
          v4 \in {Absent} \cup {Some(s) : s \in Ipv4Cidrs},
          v6 \in {Absent} \cup {Some(s) : s \in Ipv6Cidrs} :
        /\ ip_family' = family
        /\ service_ipv4_cidr' = v4
        /\ service_ipv6_cidr' = v6
        /\ dns_ip' = ServiceIpCidrToClusterDnsIp(family, v4, v6)
    /\ UNCHANGED nonDnsVars

DnsNext == ClusterDnsIp

DnsSpecInit == Init /\ cloud = {}

DnsSpec == DnsSpecInit /\ [][DnsNext]_vars

\* ---------------------------------------- ProductionMemo as JSON and back
JsonNull == [type |-> "null", value |-> ""]
JsonString(s) == [type |-> "string", value |-> s]
JsonBool(b) == [type |-> "bool", value |-> IF b THEN "true" ELSE "false"]

MemoFields ==
    {"current_status", "aws_secret_name", "cluster_name", "creation_policy",
     "region", "assume_role", "provisioning_started"}

\* #[serde(rename_all = "camelCase")]
CamelCase ==
    [f \in MemoFields |->
        CASE f = "current_status" -> "currentStatus"
          [] f = "aws_secret_name" -> "awsSecretName"
          [] f = "cluster_name" -> "clusterName"
          [] f = "creation_policy" -> "creationPolicy"
          [] f = "region" -> "region"
          [] f = "assume_role" -> "assumeRole"
          [] f = "provisioning_started" -> "provisioningStarted"]

\* The field names as they are in the struct.
SnakeCase == [f \in MemoFields |-> f]

\* One field as a JSON value: String, bool, Option<_> (None is null).
ToJson(f, v) ==
    IF f = "provisioning_started" THEN JsonBool(v)
    ELSE IF f = "current_status" THEN JsonString(v)
    ELSE IF v = None THEN JsonNull
    ELSE JsonString(v)

\* derive(Serialize): a JSON object with one member per field.
Serialize(m) ==
    [k \in {CamelCase[f] : f \in MemoFields} |->
        LET f == CHOOSE f \in MemoFields : CamelCase[f] = k IN ToJson(f, m[f])]

\* derive(Deserialize) with the members looked up under key[f]: a String or
\* bool member must be there with its type, an Option member may be missing
\* or null.
DeserializeWith(j, key) ==
    LET has(f, ty) == key[f] \in DOMAIN j /\ j[key[f]].type = ty
        option(f) == IF has(f, "string") THEN j[key[f]].value ELSE None
        wrong(f) == key[f] \in DOMAIN j /\ j[key[f]].type = "bool"
    IN IF \/ ~has("current_status", "string")
          \/ ~has("provisioning_started", "bool")
          \/ \E f \in MemoFields \ {"current_status", "provisioning_started"} : wrong(f)
          THEN [kind |-> "err", memo |-> DefaultMemo]
          ELSE [kind |-> "ok",
                memo |-> [current_status |-> j[key["current_status"]].value,
                          aws_secret_name |-> option("aws_secret_name"),
                          cluster_name |-> option("cluster_name"),
                          creation_policy |-> option("creation_policy"),
                          region |-> option("region"),
                          assume_role |-> option("assume_role"),
                          provisioning_started |->
                              j[key["provisioning_started"]].value = "true"]]

\* Mutant: the members are looked up under the names of the struct's fields.
Deserialize_SnakeCase(j) == DeserializeWith(j, SnakeCase)

\* derive(Deserialize) under rename_all = "camelCase".
Deserialize(j) == DeserializeWith(j, CamelCase)

\* client.send_info(memo) succeeded: the Info Channel holds the memo.
MemoSendInfo ==
    /\ \E m \in Memos :
        /\ sent_memo' = m
        /\ channel' = Serialize(m)
    /\ read_memo' = NotRead
    /\ UNCHANGED nonMemoVars

\* client.get_info() of the same process.
MemoGetInfo ==
    /\ DOMAIN channel # {}
    /\ read_memo = NotRead
    /\ read_memo' = Deserialize(channel)
    /\ UNCHANGED <<nonMemoVars, sent_memo, channel>>

MemoNext ==
    \/ MemoSendInfo
    \/ MemoGetInfo

MemoSpecInit == Init /\ cloud = {}

MemoSpec == MemoSpecInit /\ [][MemoNext]_vars

\* ------------------------------------------------------------ run_workload
\* const SONOBUOY_STATUS_TIMEOUT: u64 = 900 (seconds)
SONOBUOY_STATUS_TIMEOUT == 900

\* The seconds after which wait_for_sonobuoy_status would return, before and
\* after the deadline.
StatusSeconds == {0, 450, 899, 901, 1800}

\* One step of run_workload: what was done, how it ended, and for a plugin
\* its index, for the run the number of plugins passed, for the status wait
\* the seconds it would have taken.
WorkloadStep(s, out, n) == [step |-> s, out |-> out, n |-> n]

\* for (id, test) in tests: sonobuoy gen plugin, File::create, write_all.
GenOutcomes == {"spawn_error", "exit_failure", "create_error", "write_error", "ok"}

GenError(out) ==
    CASE out = "spawn_error"  -> "WorkloadProcess"
      [] out = "exit_failure" -> "WorkloadTest"
      [] out = "create_error" -> "FileWrite"
      [] OTHER                -> "WorkloadProcess"

\* A sonobuoy command whose exit status is checked.
CommandOutcomes == {"spawn_error", "exit_failure", "ok"}

CommandError(out) == IF out = "spawn_error" THEN "WorkloadProcess" ELSE "WorkloadRun"

\* Mutant: the status wait is not bounded.
StatusOutcome_NoDeadline(seconds, answer) == answer

\* tokio::time::timeout(Duration::from_secs(SONOBUOY_STATUS_TIMEOUT), ..):
\* the answer of wait_for_sonobuoy_status when it comes before the deadline,
\* Elapsed otherwise.
StatusOutcome(seconds, answer) ==
    IF seconds < SONOBUOY_STATUS_TIMEOUT THEN answer ELSE "timeout"

StatusError(out) == IF out = "timeout" THEN "SonobuoyTimeout" ELSE "SonobuoyStatus"

\* Where run_workload goes after a step: on, or out with the error.
AfterStep(out, next) == IF out = "ok" THEN next ELSE "done"

WorkloadReturn(s, out, n, next, e, res) ==
    /\ workload_steps' = Append(workload_steps, WorkloadStep(s, out, n))
    /\ workload_pc' = AfterStep(out, next)
    /\ workload_result' = IF AfterStep(out, next) = "done"
                             THEN (IF out = "ok" THEN res ELSE WorkloadErr(e))
                             ELSE workload_result

\* run_workload is called with a workload config.
RunWorkload ==
    /\ workload_pc = "start"
    /\ \E c \in WorkloadConfigs :
        /\ workload_config' = c
        /\ workload_pc' = IF c.tests > 0 THEN "gen_plugin" ELSE "run"
    /\ UNCHANGED <<nonWorkloadVars, plugin_test_args, workload_steps, workload_result>>

\* One iteration of the plugin loop.
GenPlugin ==
    /\ workload_pc = "gen_plugin"
    /\ LET id == Len(plugin_test_args) + 1 IN
       \E out \in GenOutcomes :
          /\ WorkloadReturn("gen_plugin", out, id,
                            IF id < workload_config.tests THEN "gen_plugin" ELSE "run",
                            GenError(out), WorkloadNone)
          /\ plugin_test_args' = IF out = "ok" THEN Append(plugin_test_args, id)
                                               ELSE plugin_test_args
    /\ UNCHANGED <<nonWorkloadVars, workload_config>>

\* sonobuoy run --namespace testsys-workload <plugins> [--sonobuoy-image ..]
SonobuoyRun ==
    /\ workload_pc = "run"
    /\ \E out \in CommandOutcomes :
          WorkloadReturn("run", out, Len(plugin_test_args), "wait_status",
                         CommandError(out), WorkloadNone)
    /\ UNCHANGED <<nonWorkloadVars, workload_config, plugin_test_args>>

\* timeout(900 s, wait_for_sonobuoy_status(..)).await.context(..)??
WaitForSonobuoyStatus ==
    /\ workload_pc = "wait_status"
    /\ \E seconds \in StatusSeconds, answer \in {"ok", "err"} :
          LET out == StatusOutcome(seconds, answer) IN
          WorkloadReturn("wait_status", out, seconds, "wait_results",
                         StatusError(out), WorkloadNone)
    /\ UNCHANGED <<nonWorkloadVars, workload_config, plugin_test_args>>

\* wait_for_sonobuoy_results(..).await?
WaitForSonobuoyResults ==
    /\ workload_pc = "wait_results"
    /\ \E out \in {"ok", "err"} :
          WorkloadReturn("wait_results", out, 0, "retrieve", "SonobuoyResults",
                         WorkloadNone)
    /\ UNCHANGED <<nonWorkloadVars, workload_config, plugin_test_args>>

\* results_workload: sonobuoy retrieve
SonobuoyRetrieve ==
    /\ workload_pc = "retrieve"
    /\ \E out \in CommandOutcomes :
          WorkloadReturn("retrieve", out, 0, "status_json", CommandError(out),
                         WorkloadNone)
    /\ UNCHANGED <<nonWorkloadVars, workload_config, plugin_test_args>>

\* results_workload: sonobuoy status --json, whose exit status is not looked
\* at, and the parse of its output as JSON.
SonobuoyStatusJson ==
    /\ workload_pc = "status_json"
    /\ \E out \in {"spawn_error", "invalid_json", "ok"} :
          WorkloadReturn("status_json", out, 0, "process_results",
                         IF out = "spawn_error" THEN "WorkloadProcess"
                                                ELSE "DeserializeJson",
                         WorkloadNone)
    /\ UNCHANGED <<nonWorkloadVars, workload_config, plugin_test_args>>

\* results_workload: process_sonobuoy_test_results(&run_status)
ProcessSonobuoyTestResults ==
    /\ workload_pc = "process_results"
    /\ \E out \in {"ok", "err"} :
          WorkloadReturn("process_results", out, 0, "done", "SonobuoyResults",
                         WorkloadOk)
    /\ UNCHANGED <<nonWorkloadVars, workload_config, plugin_test_args>>

WorkloadNext ==
    \/ RunWorkload
    \/ GenPlugin
    \/ SonobuoyRun
    \/ WaitForSonobuoyStatus
    \/ WaitForSonobuoyResults
    \/ SonobuoyRetrieve
    \/ SonobuoyStatusJson
    \/ ProcessSonobuoyTestResults

WorkloadSpecInit == Init /\ cloud = {}

WorkloadSpec == WorkloadSpecInit /\ [][WorkloadNext]_vars

\* ------------------------------------------------- the kind Cluster value
\* One kind command: "delete" or "create", the cluster it names, how it ended.
KindCall(c, n, out) == [cmd |-> c, name |-> n, out |-> out]

\* How a kind command can end: it could not be started, it exited
\* unsuccessfully, or it succeeded.
KindOutcomes == {"spawn_error", "exit_failure", "success"}

\* The clusters that can exist after kind delete cluster --name n: gone when
\* it succeeded, untouched when it did not start, either when it failed.
AfterKindDelete(clusters, n, out) ==
    CASE out = "success"      -> {clusters \ {n}}
      [] out = "exit_failure" -> {clusters, clusters \ {n}}
      [] OTHER                -> {clusters}

\* The clusters that can exist after kind create cluster --name n.
AfterKindCreate(clusters, n, out) ==
    CASE out = "success"      -> {clusters \cup {n}}
      [] out = "exit_failure" -> {clusters, clusters \cup {n}}
      [] OTHER                -> {clusters}

\* Mutant: Cluster::new goes on to the create whatever the delete answered.
NewAfterDelete_Ignore(out) == "create"

\* Self::delete_kind_cluster(cluster_name)?
NewAfterDelete(out) == IF out = "success" THEN "create" ELSE "idle"

KindRemove(s, i) == SubSeq(s, 1, i - 1) \o SubSeq(s, i + 1, Len(s))

\* Cluster::new(cluster_name) is called.
ClusterNew ==
    /\ kind_pc = "idle"
    /\ kind_ops < MaxClusterOps
    /\ \E n \in KindNames : kind_name' = n
    /\ kind_pc' = "tempdir"
    /\ kind_op' = "new"
    /\ kind_calls' = <<>>
    /\ kind_result' = KindNone
    /\ kind_logged' = FALSE
    /\ kind_ops' = kind_ops + 1
    /\ UNCHANGED <<nonKindVars, kind_clusters, kind_objects>>

\* let kubeconfig_dir = TempDir::new()?
ClusterNewTempDir ==
    /\ kind_pc = "tempdir"
    /\ \E ok \in BOOLEAN :
        /\ kind_pc' = IF ok THEN "delete" ELSE "idle"
        /\ kind_result' = IF ok THEN kind_result ELSE KindErr
    /\ UNCHANGED <<nonKindVars, kind_op, kind_name, kind_clusters, kind_objects,
                   kind_calls, kind_logged, kind_ops>>

\* Self::delete_kind_cluster(cluster_name)?
ClusterNewDelete ==
    /\ kind_pc = "delete"
    /\ \E out \in KindOutcomes :
        /\ kind_calls' = Append(kind_calls, KindCall("delete", kind_name, out))
        /\ kind_clusters' \in AfterKindDelete(kind_clusters, kind_name, out)
        /\ kind_pc' = NewAfterDelete(out)
        /\ kind_result' = IF NewAfterDelete(out) = "idle" THEN KindErr ELSE kind_result
    /\ UNCHANGED <<nonKindVars, kind_op, kind_name, kind_objects, kind_logged, kind_ops>>

\* Self::create_kind_cluster(cluster_name, &kubeconfig)?; Ok(Self { .. })
\* The command is not run when the kubeconfig path is not UTF-8.
ClusterNewCreate ==
    /\ kind_pc = "create"
    /\ \E out \in KindOutcomes \cup {"path_error"} :
        /\ kind_calls' = IF out = "path_error" THEN kind_calls
                         ELSE Append(kind_calls, KindCall("create", kind_name, out))
        /\ kind_clusters' \in AfterKindCreate(kind_clusters, kind_name, out)
        /\ kind_objects' = IF out = "success" THEN Append(kind_objects, kind_name)
                                              ELSE kind_objects
        /\ kind_result' = IF out = "success" THEN KindOk ELSE KindErr
    /\ kind_pc' = "idle"
    /\ UNCHANGED <<nonKindVars, kind_op, kind_name, kind_logged, kind_ops>>

\* if let Err(e) = Self::delete_kind_cluster(&self.name) { eprintln!(..) }
DropLogged(out) == out # "success"

\* A Cluster value goes out of scope.
ClusterDrop ==
    /\ kind_pc = "idle"
    /\ kind_ops < MaxClusterOps
    /\ \E i \in 1..Len(kind_objects), out \in KindOutcomes :
        /\ kind_name' = kind_objects[i]
        /\ kind_objects' = KindRemove(kind_objects, i)
        /\ kind_calls' = <<KindCall("delete", kind_objects[i], out)>>
        /\ kind_clusters' \in AfterKindDelete(kind_clusters, kind_objects[i], out)
        /\ kind_logged' = DropLogged(out)
    /\ kind_op' = "drop"
    /\ kind_result' = KindNone
    /\ kind_ops' = kind_ops + 1
    /\ UNCHANGED <<nonKindVars, kind_pc>>

KindNext ==
    \/ ClusterNew
    \/ ClusterNewTempDir
    \/ ClusterNewDelete
    \/ ClusterNewCreate
    \/ ClusterDrop

KindSpecInit == Init /\ cloud = {}

KindSpec == KindSpecInit /\ [][KindNext]_vars

\* ------------------------------------------------------ derived notions
\* The log entries of the current run that satisfy a test.
Invoked(o) == \E i \in 1..Len(log) : log[i].op = o

\* The run has returned (it was not killed and is not still running).
Returned == pc = "idle" /\ result.kind \in {"ok", "err"}

\* The entries of the log that are calls on the external system (not on the
\* Info Channel).
IsExternal(e) == e.op \notin {"get_info", "send_info"}

IsSent(e) == e.op = "send_info" /\ e.out = "ok"

\* The run has read the memo from the Info Channel.
MemoRead == Len(log) >= 1 /\ log[1] = GetInfo(TRUE)

\* The checkpoint that records provisioning_started = true has been written
\* by this run.
MarkerCheckpointed ==
    \E i \in 1..Len(log) :
        IsSent(log[i]) /\ log[i].status = "Creating cluster" /\ log[i].marker

LastEntry == log[Len(log)]

\* ------------------------------------------------------------------ C1
\* C1: eksctl create cluster is invoked only after a send_info carrying
\* provisioning_started = true has succeeded earlier in the same run, the
\* Info Channel holds the marker from then on, and the run that follows one
\* that invoked the external create reads the marker as true.
C1_MarkerBeforeCreate ==
    /\ \A i \in 1..Len(log) :
          log[i].op = "eksctl_create" =>
              /\ \E j \in 1..(i - 1) : IsSent(log[j]) /\ log[j].marker
              /\ store.provisioning_started
    /\ pc = "c_create_cluster" => store.provisioning_started
    /\ (prev.invoked_create /\ MemoRead) => memo.provisioning_started

\* A run killed inside eksctl create, and the next run reading the marker.
C1_Witness ==
    /\ prev.op = "create" /\ prev.kind = "aborted" /\ prev.invoked_create
    /\ op = "destroy" /\ MemoRead /\ memo.provisioning_started

\* ------------------------------------------------------------------ C2
\* C2: every error create returns after its provisioning_started checkpoint
\* has been written is classified other than Clear.
C2_NoClearAfterMarker ==
    (op = "create" /\ Returned /\ result.kind = "err" /\ MarkerCheckpointed)
        => result.class # "Clear"

\* ------------------------------------------------------------------ C3
\* C3: a destroy run that read provisioning_started = true goes on to the
\* cleanup (credential configuration and eksctl delete), whether or not
\* the memo holds a cluster name.
C3_DestroyAttemptsCleanup ==
    (op = "destroy" /\ Returned /\ MemoRead /\ memo.provisioning_started)
        => (Invoked("aws_config") \/ Invoked("eksctl_delete"))

\* ------------------------------------------------------------------ C4
\* C4: a destroy run that read provisioning_started = false has returned Ok
\* having made no call but the get_info, and has left the Info Channel as
\* it read it.
C4_NoopDestroy ==
    (op = "destroy" /\ MemoRead /\ ~memo.provisioning_started)
        => /\ pc = "idle"
           /\ result = Ok(NoResource)
           /\ Len(log) = 1
           /\ store = memo

\* A no-op destroy on a memo that names a cluster, with both arguments given.
C4_Witness ==
    /\ op = "destroy" /\ MemoRead /\ ~memo.provisioning_started
    /\ memo.cluster_name # None /\ args.spec /\ args.resource
    /\ result.kind = "ok"

\* ------------------------------------------------------------------ C5
\* C5: a destroy run that follows a create run which returned Remaining,
\* reads the memo and configures its credentials, invokes eksctl delete.
C5_RemainingIsDestroyed ==
    (/\ op = "destroy" /\ Returned /\ MemoRead
     /\ prev.op = "create" /\ prev.kind = "err" /\ prev.class = "Remaining"
     /\ \A i \in 1..Len(log) : log[i].op = "aws_config" => log[i].out = "ok")
        => Invoked("eksctl_delete")

\* ------------------------------------------------------------------ C6
OptionFields == {"aws_secret_name", "cluster_name", "creation_policy",
                 "region", "assume_role"}

\* C6 as stated: no write of the Info Channel turns a set field of the memo
\* back to unset.
C6_MemoMonotonic ==
    [][/\ \A f \in OptionFields : store[f] # None => store'[f] # None
       /\ store.provisioning_started => store'.provisioning_started]_vars

\* C6 amended: cluster_name, region, creation_policy and provisioning_started
\* are never written back as unset; aws_secret_name and assume_role change
\* only in a create run, to the values of that run's spec.
C6_MemoMonotonicButInputs ==
    [][/\ \A f \in {"cluster_name", "region", "creation_policy"} :
            store[f] # None => store'[f] # None
       /\ store.provisioning_started => store'.provisioning_started
       /\ (\/ store'.aws_secret_name # store.aws_secret_name
           \/ store'.assume_role # store.assume_role)
            => /\ op = "create"
               /\ store'.aws_secret_name = spec.secret
               /\ store'.assume_role = spec.assume_role]_vars

\* A second run has written the memo of a channel whose memo already named
\* the cluster and carried the marker and the credentials.
C6_Witness ==
    /\ runs = 2 /\ prev.op = "create" /\ prev.kind = "ok"
    /\ \E i \in 1..Len(log) : IsSent(log[i])
    /\ store.cluster_name # None /\ store.provisioning_started
    /\ store.aws_secret_name # None /\ store.assume_role # None

\* ------------------------------------------------------------------ C7
\* C7: a destroy run that ended in a failure of eksctl delete (the command
\* did not start, or exited unsuccessfully) returned Orphaned.
C7_DeleteFailureOrphaned ==
    (/\ op = "destroy" /\ Returned /\ Len(log) >= 1
     /\ LastEntry.op = "eksctl_delete"
     /\ LastEntry.out \in {"spawn_error", "exit_failure"})
        => result = Err("Orphaned")

\* ------------------------------------------------------------------ C8
\* C8: a destroy run that read provisioning_started = true never returns an
\* error classified Clear.
C8_DestroyNeverClear ==
    (op = "destroy" /\ Returned /\ MemoRead /\ memo.provisioning_started
     /\ result.kind = "err")
        => result.class # "Clear"

\* ------------------------------------------------------------------ C9
\* C9: every external call of a create run is preceded by the successful
\* checkpoint "Creating AWS config", and from the first external call on
\* (also after a crash) the Info Channel holds the creation policy, the
\* secret name and the assumed role of the run's spec.
C9_InputsBeforeExternal ==
    op = "create" =>
        /\ \A i \in 1..Len(log) :
              IsExternal(log[i]) =>
                  \E j \in 1..(i - 1) :
                      IsSent(log[j]) /\ log[j].status = "Creating AWS config"
        /\ (pc = "c_shared_config" \/ \E i \in 1..Len(log) : IsExternal(log[i]))
              => /\ store.creation_policy = PolicyOrDefault(spec.creation_policy)
                 /\ store.aws_secret_name = spec.secret
                 /\ store.assume_role = spec.assume_role

\* A create run with a secret and a role, killed inside eksctl create.
C9_Witness ==
    /\ op = "create" /\ result.kind = "aborted" /\ Invoked("eksctl_create")
    /\ spec.secret # None /\ spec.assume_role # None
    /\ store.aws_secret_name = spec.secret /\ store.assume_role = spec.assume_role

\* ----------------------------------------------------------------- C10
\* The policy contradicts what the existence query observed.
Contradictory(policy, answer) ==
    \/ policy = "Create" /\ answer = "found"
    \/ policy = "Never" /\ answer = "not_found"

\* The existence query of a create run is its first describe_cluster.
IsExistenceQuery(i) ==
    /\ log[i].op = "describe_cluster"
    /\ \A j \in 1..(i - 1) : log[j].op # "describe_cluster"

\* C10: when the policy contradicts the answer of the existence query, the
\* query is the last call of the run, the run has returned Clear, the
\* Info Channel still holds the "Determining cluster state" checkpoint, no
\* send of the run changed the marker, and eksctl create was not invoked.
C10_ContradictionIsClear ==
    op = "create" =>
        \A i \in 1..Len(log) :
            (IsExistenceQuery(i)
             /\ Contradictory(PolicyOrDefault(spec.creation_policy), log[i].out))
                => /\ i = Len(log)
                   /\ pc = "idle"
                   /\ result = Err("Clear")
                   /\ store.current_status = "Determining cluster state"
                   /\ store.provisioning_started = memo.provisioning_started
                   /\ \A j \in 1..Len(log) :
                         log[j].op = "send_info" => log[j].marker = log[2].marker
                   /\ ~Invoked("eksctl_create")

\* Policy Create met an existing cluster; policy Never met an absent one.
C10_Witness ==
    /\ op = "create" /\ Returned /\ Len(log) >= 1
    /\ LastEntry.op = "describe_cluster"
    /\ spec.creation_policy = "Never" /\ LastEntry.out = "not_found"
    /\ result = Err("Clear")

\* ----------------------------------------------------------------- C11
\* The read-back of a create run: a describe_cluster that is not the
\* existence query and comes after every eksctl create of the run.
IsReadBack(i) ==
    /\ log[i].op = "describe_cluster"
    /\ ~IsExistenceQuery(i)
    /\ \A j \in 1..Len(log) : log[j].op = "eksctl_create" => j < i

\* C11: a create run that returned a resource description has read the
\* cluster back from the external system after the create step and has then
\* sent the "Cluster ready" checkpoint successfully as its last call; the
\* description is the one read back and the Info Channel names that cluster.
\* A run whose read-back or final checkpoint failed returned an error, and
\* only a run that returned Ok carries a description.
C11_DescriptionAfterReadBack ==
    op = "create" =>
        /\ result.kind = "ok" =>
              /\ pc = "idle"
              /\ Len(log) >= 2
              /\ IsSent(LastEntry) /\ LastEntry.status = "Cluster ready"
              /\ IsReadBack(Len(log) - 1) /\ log[Len(log) - 1].out = "found"
              /\ result.resource = [cluster_name |-> log[Len(log) - 1].cluster_name,
                                    region |-> log[Len(log) - 1].region]
              /\ store.current_status = "Cluster ready"
              /\ store.cluster_name = result.resource.cluster_name
              /\ store.region = result.resource.region
        /\ (/\ Returned /\ Len(log) >= 1
            /\ \/ IsReadBack(Len(log)) /\ LastEntry.out # "found"
               \/ /\ LastEntry.op = "send_info" /\ LastEntry.out = "err"
                  /\ LastEntry.status = "Cluster ready")
              => result.kind = "err"
        /\ result.kind # "ok" => result.resource = NoResource

\* A create run that created the cluster and returned its description.
C11_Witness ==
    /\ op = "create" /\ result.kind = "ok" /\ Invoked("eksctl_create")
    /\ result.resource.cluster_name = "beta"

\* ----------------------------------------------------------------- C12
\* The calls of a destroy run that got past the marker and the cluster name.
DestroyCalls == <<"get_info", "aws_config", "eksctl_delete", "send_info">>

\* C12: what a destroy run does and returns is a function of the memo it read
\* and of the answers of its collaborators: credentials region, cluster name
\* and region of the delete are those of the memo, the calls are a prefix of
\* get_info, aws_config, eksctl delete, send_info, and the result follows
\* from the memo and the last answer - whatever the spec and prior resource
\* arguments hold.
C12_DestroyFromMemo ==
    (op = "destroy" /\ MemoRead) =>
        /\ \A i \in 1..Len(log) :
              /\ i <= Len(DestroyCalls) /\ log[i].op = DestroyCalls[i]
              /\ log[i].op = "aws_config" => log[i].region = memo.region
              /\ log[i].op = "eksctl_delete" =>
                    /\ log[i].cluster_name = memo.cluster_name
                    /\ log[i].region = DestroyRegion(memo)
        /\ (~memo.provisioning_started \/ memo.cluster_name = None) => Len(log) = 1
        /\ Returned =>
              result = IF ~memo.provisioning_started THEN Ok(NoResource)
                       ELSE IF memo.cluster_name = None THEN Err(DestroyNoNameClass)
                       ELSE IF LastEntry.op = "aws_config" THEN Err(DestroyAwsConfigClass)
                       ELSE IF LastEntry.op = "eksctl_delete"
                               THEN Err(DeleteClusterClass(LastEntry.out))
                       ELSE Ok(NoResource)

\* A destroy run whose prior resource names another cluster than the memo
\* and which invoked eksctl delete.
C12_Witness ==
    /\ op = "destroy" /\ Returned /\ MemoRead
    /\ args.resource /\ args.cluster_name # memo.cluster_name
    /\ Invoked("eksctl_delete")

\* ----------------------------------------------------------------- C13
DeleteSucceeded ==
    \E i \in 1..Len(log) : log[i].op = "eksctl_delete" /\ log[i].out = "success"

\* C13: a destroy run that returned after eksctl delete succeeded has
\* attempted exactly one send_info, its last call, with the status
\* "Cluster deleted", and has returned Ok whether that send succeeded or not.
C13_TerminalSendBestEffort ==
    (op = "destroy" /\ Returned /\ DeleteSucceeded) =>
        /\ result = Ok(NoResource)
        /\ Cardinality({i \in 1..Len(log) : log[i].op = "send_info"}) = 1
        /\ LastEntry.op = "send_info"
        /\ LastEntry.status = "Cluster deleted"

\* The terminal send failed and destroy returned Ok.
C13_Witness ==
    /\ op = "destroy" /\ Returned /\ DeleteSucceeded
    /\ LastEntry.op = "send_info" /\ LastEntry.out = "err"
    /\ result.kind = "ok"

\* ----------------------------------------------------------------- C14
\* C14: a run that returned an error carries exactly one classification of
\* Resources (and a run that did not carries none), and an error that
\* reaches create or destroy from a function they call has the
\* classification that function gave it.
C14_OneClassification ==
    /\ result.kind = "err" => result.class \in Resources
    /\ result.kind # "err" => result.class = None
    /\ (Returned /\ result.kind = "err" /\ Len(log) >= 1) =>
          /\ (op = "create" /\ IsExistenceQuery(Len(log))) =>
                result.class =
                    IF LastEntry.out = "error"
                        THEN DoesClusterExist(LastEntry.out).class
                        ELSE IsClusterCreationRequired(
                                 LastEntry.out = "found",
                                 PolicyOrDefault(spec.creation_policy)).class
          /\ LastEntry.op = "eksctl_create" =>
                result.class = CreateClusterClass(LastEntry.out)
          /\ (op = "create" /\ IsReadBack(Len(log))) =>
                result.class = CreatedCluster(LastEntry.out, cfg).class
          /\ LastEntry.op = "eksctl_delete" =>
                result.class = DeleteClusterClass(LastEntry.out)

\* The existence query failed and its classification reached the caller.
C14_Witness ==
    /\ op = "create" /\ Returned /\ Len(log) >= 1
    /\ IsExistenceQuery(Len(log)) /\ LastEntry.out = "error"
    /\ result = Err("Clear")

\* ------------------------------------------------- the test agent's calls
\* The places in calls where c was called.
CallsOf(c) == {i \in 1..Len(calls) : calls[i].call = c}

Failed(i) == calls[i].out = "err"

\* The test results reached the control plane with call i.
Delivered(i) == calls[i].call = "send_test_done" /\ calls[i].out = "ok"

\* Call i is the graceful runner.terminate of run: the one that follows the
\* delivery of the results.
IsGracefulTerminate(i) ==
    i > 1 /\ calls[i].call = "terminate" /\ Delivered(i - 1)

\* run has returned (new produced the agent, and the process is over).
RunReturned == agent /\ apc = "done"

\* The phases of run whose failure run reports with send_error.
ReportedPhases == {"runner_run", "send_test_done", "terminate"}

\* ----------------------------------------------------------------- C15
\* C15 as stated: no send_error follows a successful send_test_done.
C15_NoErrorAfterDone ==
    \A i, j \in 1..Len(calls) :
        (i < j /\ Delivered(i)) => calls[j].call # "send_error"

\* C15: send_test_done is attempted at most once and never after a
\* send_error; a send_error follows a successful send_test_done only as the
\* last call of run, right after the graceful runner.terminate failed, and
\* it carries that termination error.
C15_ErrorAfterDoneOnlyForTermination ==
    /\ Cardinality(CallsOf("send_test_done")) <= 1
    /\ \A i \in CallsOf("send_test_done") :
          \A j \in 1..(i - 1) : calls[j].call # "send_error"
    /\ \A i, j \in 1..Len(calls) :
          (i < j /\ Delivered(i) /\ calls[j].call = "send_error") =>
              /\ j = i + 2
              /\ j = Len(calls)
              /\ calls[i + 1].call = "terminate" /\ Failed(i + 1)
              /\ calls[j].arg = calls[i + 1].err

\* The results were delivered, the graceful termination failed and its error
\* was sent.
C15_Witness ==
    /\ RunReturned
    /\ \E i \in 1..Len(calls) :
          /\ Delivered(i) /\ Len(calls) = i + 2
          /\ calls[i + 2].call = "send_error" /\ calls[i + 2].out = "ok"

\* ----------------------------------------------------------------- C16
\* C16 as stated: run attempts at most one send_error.
C16_AtMostOneSendError == Cardinality(CallsOf("send_error")) <= 1

\* C16: every send_error comes right after the failed runner.run,
\* send_test_done or runner.terminate whose error it carries, and a run that
\* returned has sent one for each such failure; there are at most two, and
\* two only when the best-effort termination failed after the first.
C16_OneSendErrorPerFailure ==
    /\ \A j \in CallsOf("send_error") :
          /\ j > 1 /\ Failed(j - 1)
          /\ calls[j - 1].call \in ReportedPhases
          /\ calls[j].arg = calls[j - 1].err
    /\ RunReturned =>
          \A i \in 1..Len(calls) :
              (Failed(i) /\ calls[i].call \in ReportedPhases) =>
                  i < Len(calls) /\ calls[i + 1].call = "send_error"
    /\ Cardinality(CallsOf("send_error")) <= 2
    /\ Cardinality(CallsOf("send_error")) = 2 =>
          /\ calls[Len(calls)].call = "send_error"
          /\ calls[Len(calls) - 1].call = "terminate"
          /\ ~IsGracefulTerminate(Len(calls) - 1)
          /\ calls[Len(calls) - 2].call = "send_error"

\* runner.run failed, the best-effort termination failed too, and run
\* attempted two send_error.
C16_Witness ==
    /\ RunReturned
    /\ Cardinality(CallsOf("send_error")) = 2
    /\ \E i \in CallsOf("runner_run") : Failed(i)

\* ----------------------------------------------------------------- C17
\* C17: a failed send_test_starting is the last call of the process: run has
\* returned that client error and runner.run, send_test_done, send_error and
\* runner.terminate were not invoked.
C17_StartingFailureReturnsAtOnce ==
    \A i \in CallsOf("send_test_starting") :
        Failed(i) =>
            /\ i = Len(calls)
            /\ apc = "done"
            /\ returned = AgentErr(calls[i].err)
            /\ calls[i].err.kind = "Client"
            /\ \A c \in {"runner_run", "send_test_done", "send_error", "terminate"} :
                  CallsOf(c) = {}

C17_Witness ==
    /\ RunReturned
    /\ calls[Len(calls)].call = "send_test_starting"
    /\ returned.kind = "err"

\* ----------------------------------------------------------------- C18
\* C18: after a failed runner.run the next call is send_error with the
\* runner error, the one after it runner.terminate; send_test_done is never
\* invoked; run returns only after both, and returns the runner error of
\* runner.run whatever the two best-effort calls answered.
C18_RunFailure ==
    \A i \in CallsOf("runner_run") :
        Failed(i) =>
            /\ calls[i].err.kind = "Runner"
            /\ CallsOf("send_test_done") = {}
            /\ Len(calls) >= i + 1 =>
                  /\ calls[i + 1].call = "send_error"
                  /\ calls[i + 1].arg = calls[i].err
            /\ Len(calls) >= i + 2 => calls[i + 2].call = "terminate"
            /\ IF apc = "done"
                  THEN Len(calls) >= i + 2 /\ returned = AgentErr(calls[i].err)
                  ELSE returned = AgentNone

\* runner.run failed, and so did the error notification and the termination.
C18_Witness ==
    /\ RunReturned
    /\ \E i \in CallsOf("runner_run") :
          /\ Failed(i) /\ Len(calls) >= i + 2
          /\ Failed(i + 1) /\ Failed(i + 2)

\* ----------------------------------------------------------------- C19
\* C19: after a failed send_test_done the next call is send_error with the
\* send failure, the one after it runner.terminate; run returns only after
\* both, and returns the client error of send_test_done, never Ok, whatever
\* the two best-effort calls answered.
C19_DoneFailure ==
    \A i \in CallsOf("send_test_done") :
        Failed(i) =>
            /\ calls[i].err.kind = "Client"
            /\ i > 1 /\ calls[i - 1].call = "runner_run" /\ ~Failed(i - 1)
            /\ Len(calls) >= i + 1 =>
                  /\ calls[i + 1].call = "send_error"
                  /\ calls[i + 1].arg = calls[i].err
            /\ Len(calls) >= i + 2 => calls[i + 2].call = "terminate"
            /\ IF apc = "done"
                  THEN Len(calls) >= i + 2 /\ returned = AgentErr(calls[i].err)
                  ELSE returned = AgentNone

\* send_test_done failed, the best-effort termination failed as well.
C19_Witness ==
    /\ RunReturned
    /\ \E i \in CallsOf("send_test_done") :
          /\ Failed(i) /\ Len(calls) >= i + 2
          /\ ~Failed(i + 1) /\ Failed(i + 2)

\* ----------------------------------------------------------------- C20
\* C20: when the graceful runner.terminate fails after the results were
\* delivered, the next and last call is send_error with the termination
\* error; it is the only send_error of the run, and run returns the runner
\* error of runner.terminate.
C20_TerminateFailure ==
    \A i \in CallsOf("terminate") :
        (IsGracefulTerminate(i) /\ Failed(i)) =>
            /\ calls[i].err.kind = "Runner"
            /\ Len(calls) <= i + 1
            /\ Len(calls) = i + 1 =>
                  /\ calls[i + 1].call = "send_error"
                  /\ calls[i + 1].arg = calls[i].err
            /\ IF apc = "done"
                  THEN /\ Len(calls) = i + 1
                       /\ Cardinality(CallsOf("send_error")) = 1
                       /\ returned = AgentErr(calls[i].err)
                  ELSE returned = AgentNone

\* The graceful termination failed and the notification of it failed too.
C20_Witness ==
    /\ RunReturned
    /\ \E i \in CallsOf("terminate") :
          /\ IsGracefulTerminate(i) /\ Failed(i)
          /\ Len(calls) = i + 1 /\ Failed(i + 1)

\* ----------------------------------------------------------------- C21
\* The four phases of run.
PhaseCalls == {"send_test_starting", "runner_run", "send_test_done", "terminate"}

FailedPhases == {i \in 1..Len(calls) : calls[i].call \in PhaseCalls /\ Failed(i)}

FirstFailedPhase == CHOOSE i \in FailedPhases : \A j \in FailedPhases : i <= j

\* C21: an agent whose run has not returned can take a step and has no
\* result yet; a run that returned gave Ok exactly when send_test_starting,
\* runner.run, send_test_done and runner.terminate were each called and
\* succeeded, and otherwise the error of the first of them that failed,
\* whatever send_error and the best-effort termination answered.
C21_ResultFromPhases ==
    /\ (agent /\ apc # "done") => (ENABLED AgentNext /\ returned = AgentNone)
    /\ RunReturned =>
          /\ returned.kind \in {"ok", "err"}
          /\ IF FailedPhases = {}
                THEN /\ returned = AgentOk
                     /\ \A c \in PhaseCalls :
                           \E i \in CallsOf(c) : ~Failed(i)
                ELSE returned = AgentErr(calls[FirstFailedPhase].err)

\* run returned the error of a phase although a later best-effort call
\* failed with another error.
C21_Witness ==
    /\ RunReturned /\ returned.kind = "err"
    /\ FailedPhases # {}
    /\ \E j \in 1..Len(calls) :
          /\ j > FirstFailedPhase /\ Failed(j)
          /\ calls[j].call = "terminate"

\* ----------------------------------------------------------------- C22
NewCalls == <<"client_new", "get_test_info", "runner_new">>

\* C22: new calls C::new, client.get_test_info and R::new in this order,
\* once each, R::new with the test info that get_test_info returned; a
\* failure of one of them is the last call of the process: new has returned
\* that error (Client for the first two, Runner for the third), no TestAgent
\* exists and nothing was notified. A TestAgent exists only after all three
\* succeeded.
C22_NewInOrder ==
    /\ \A i \in 1..Len(calls) :
          IF i <= 3 THEN calls[i].call = NewCalls[i]
                    ELSE \A k \in 1..3 : calls[i].call # NewCalls[k]
    /\ Len(calls) >= 3 =>
          /\ calls[3].data = test_info
          /\ ~Failed(2) /\ calls[2].data = test_info
    /\ \A i \in 1..Len(calls) :
          (i <= 3 /\ Failed(i)) =>
              /\ i = Len(calls)
              /\ apc = "done"
              /\ ~agent
              /\ returned = AgentErr(calls[i].err)
              /\ calls[i].err.kind = (IF i = 3 THEN "Runner" ELSE "Client")
    /\ agent <=> (Len(calls) >= 3 /\ \A i \in 1..3 : ~Failed(i))
    /\ ~agent => CallsOf("send_error") \cup CallsOf("send_test_starting") = {}

\* get_test_info failed: new returned its error and built no runner.
C22_Witness ==
    /\ ~agent /\ apc = "done"
    /\ Len(calls) = 2 /\ Failed(2)

\* ----------------------------------------------------------------- C23
\* C23: send_test_starting, runner.run, send_test_done and the graceful
\* runner.terminate are each called at most once; runner.run is called right
\* after send_test_starting succeeded, send_test_done right after runner.run
\* succeeded and with the results it returned, and the graceful termination
\* right after send_test_done succeeded.
C23_PhasesInOrder ==
    /\ \A c \in {"send_test_starting", "runner_run", "send_test_done"} :
          Cardinality(CallsOf(c)) <= 1
    /\ Cardinality({i \in CallsOf("terminate") : IsGracefulTerminate(i)}) <= 1
    /\ \A i \in CallsOf("send_test_starting") :
          i > 1 /\ calls[i - 1].call = "runner_new" /\ ~Failed(i - 1)
    /\ \A i \in CallsOf("runner_run") :
          i > 1 /\ calls[i - 1].call = "send_test_starting" /\ ~Failed(i - 1)
    /\ \A i \in CallsOf("send_test_done") :
          /\ i > 1 /\ calls[i - 1].call = "runner_run" /\ ~Failed(i - 1)
          /\ calls[i].data = calls[i - 1].data
    /\ \A i \in CallsOf("terminate") :
          /\ i > 1
          /\ \/ IsGracefulTerminate(i)
             \/ calls[i - 1].call = "send_error"
    /\ \A i \in 1..Len(calls) :
          (Delivered(i) /\ i < Len(calls)) => calls[i + 1].call = "terminate"

\* All four phases ran, each after its predecessor succeeded.
C23_Witness ==
    /\ RunReturned /\ returned = AgentOk
    /\ Len(calls) = 7

\* ----------------------------------------------------------------- C24
\* The predicate first answers true at its n-th evaluation and does not fail
\* before.
FirstTrueAt(n) ==
    /\ n >= 1
    /\ Answer(predicate, n) = "true"
    /\ \A k \in 1..(n - 1) : Answer(predicate, k) = "false"

\* C24: evaluations are one sleep apart; with a predicate that first answers
\* true at its n-th evaluation the loop never makes more than n evaluations,
\* and once it made n it has returned Ok; the loop returns Ok only at the
\* first true answer.
C24_FirstTrueReturnsOk ==
    /\ wait_pc # "idle" =>
          /\ now >= (evaluations - 1) * SLEEP_MILLIS
          /\ (wait_pc = "evaluating" /\ now < wake) => now >= evaluations * SLEEP_MILLIS
    /\ \A n \in 1..MaxEvaluations :
          (wait_pc # "idle" /\ FirstTrueAt(n)) =>
              /\ evaluations <= n
              /\ evaluations = n => (wait_pc = "done" /\ wait_result = "ok")
    /\ wait_result = "ok" => (wait_pc = "done" /\ FirstTrueAt(evaluations))

\* The predicate was ready at its third evaluation and the loop returned Ok.
C24_Witness ==
    /\ wait_result = "ok" /\ evaluations = 3
    /\ predicate.true_at = 3

\* ----------------------------------------------------------------- C25
\* C25: when the predicate answered with an error the loop has returned that
\* error at the time of the answer, with no sleep and no further evaluation;
\* the loop sleeps only after "false", and every answer before the last was
\* "false".
C25_ErrorReturnsAtOnce ==
    /\ (evaluations >= 1 /\ Answer(predicate, evaluations) = "error") =>
          /\ wait_pc = "done"
          /\ wait_result = "err"
          /\ now = wake
    /\ wait_pc = "sleeping" => Answer(predicate, evaluations) = "false"
    /\ \A k \in 1..(evaluations - 1) : Answer(predicate, k) = "false"
    /\ wait_result = "err" => Answer(predicate, evaluations) = "error"

\* The predicate failed at its second evaluation.
C25_Witness ==
    /\ wait_result = "err" /\ evaluations = 2
    /\ now >= SLEEP_MILLIS

\* ----------------------------------------------------------------- C26
\* The predicate is never true and never fails.
NeverReady == wait_pc # "idle" /\ predicate = NoPredicate

\* The loop is wrapped in tokio::time::timeout.
Wrapped == deadline # NoDeadline

C26_Bounded ==
    NeverReady =>
        IF Wrapped
            THEN /\ now <= deadline
                 /\ wait_result \in {"none", "timeout"}
                 /\ wait_pc = "done" =>
                       /\ wait_result = "timeout"
                       /\ now = deadline
                       /\ evaluations <= (deadline \div SLEEP_MILLIS) + 1
                       /\ ~ENABLED WaitNext
            ELSE /\ wait_pc # "done"
                 /\ wait_result = "none"
                 /\ evaluations < MaxEvaluations => ENABLED WaitNext

\* C26: with a predicate that is never true and never fails, the wrapped
\* wait eventually returns the timeout error, at the time the duration has
\* elapsed and with no step after it; the bare loop never returns.
C26_TimeoutEndsTheWait ==
    /\ []C26_Bounded
    /\ (NeverReady /\ Wrapped) ~> (wait_pc = "done" /\ wait_result = "timeout")

\* The wait timed out after the predicate was evaluated three times.
C26_Witness ==
    /\ NeverReady /\ Wrapped
    /\ wait_result = "timeout" /\ evaluations = 3

\* ----------------------------------------------------------------- C27
\* The places of a character in a string.
Places(s, ch) == {i \in 1..Len(s) : s[i] = ch}

Least(S) == CHOOSE i \in S : \A j \in S : i <= j
Greatest(S) == CHOOSE i \in S : \A j \in S : i >= j

Applied == dns_ip # NoDnsIp

\* C27: for the IPv4 family and a service CIDR with exactly three dots, the
\* function returns the CIDR up to and including its third dot followed by
\* "10": the first three components unchanged, the fourth and the prefix
\* length gone.
C27_Ipv4DnsIp ==
    (/\ Applied /\ ip_family = "Ipv4" /\ service_ipv4_cidr.some
     /\ Cardinality(Places(service_ipv4_cidr.value, ".")) = 3) =>
        LET cidr == service_ipv4_cidr.value
            third == Greatest(Places(cidr, "."))
        IN dns_ip = DnsOk(SubSeq(cidr, 1, third) \o <<"1", "0">>)

\* 10.100.0.0/16 gave 10.100.0.10.
C27_Witness ==
    /\ ip_family = "Ipv4"
    /\ service_ipv4_cidr = Some(ExampleIpv4Cidr)
    /\ dns_ip = DnsOk(<<"1", "0", ".", "1", "0", "0", ".", "0", ".", "1", "0">>)

\* ----------------------------------------------------------------- C28
\* C28: for the IPv6 family and a present IPv6 service CIDR, the function
\* returns what precedes the first "/" of the CIDR - the whole of it when it
\* has no "/" - followed by "a", and never an error.
C28_Ipv6DnsIp ==
    (Applied /\ ip_family = "Ipv6" /\ service_ipv6_cidr.some) =>
        LET cidr == service_ipv6_cidr.value
            slashes == Places(cidr, "/")
            cut == IF slashes = {} THEN Len(cidr) ELSE Least(slashes) - 1
        IN dns_ip = DnsOk(SubSeq(cidr, 1, cut) \o <<"a">>)

\* fd30:1c53:5f8a::/108 gave fd30:1c53:5f8a::a.
C28_Witness ==
    /\ ip_family = "Ipv6"
    /\ service_ipv6_cidr = Some(ExampleIpv6Cidr)
    /\ dns_ip = DnsOk(<<"f", "d", "3", "0", ":", "1", "c", "5", "3", ":",
                        "5", "f", "8", "a", ":", ":", "a">>)

\* ----------------------------------------------------------------- C29
\* C29: the function never panics; a missing IP family, a missing CIDR of
\* the selected family and an IPv4 CIDR without exactly four components each
\* give an error with a message and the classification Remaining, every
\* other input gives a result; a family that is not Ipv6 is treated as Ipv4.
C29_DnsIpErrors ==
    Applied =>
        LET selected == IF ip_family = "Ipv6" THEN service_ipv6_cidr
                                              ELSE service_ipv4_cidr
            refused ==
                \/ ip_family = None
                \/ ~selected.some
                \/ /\ ip_family # "Ipv6"
                   /\ Cardinality(Places(selected.value, ".")) # 3
        IN /\ dns_ip.kind \in {"ok", "err"}
           /\ dns_ip.kind = "err" <=> refused
           /\ dns_ip.kind = "err" => (dns_ip.class = "Remaining" /\ dns_ip.message # "")
           /\ ip_family = "Unknown" =>
                 dns_ip = ServiceIpCidrToClusterDnsIp("Ipv4", service_ipv4_cidr,
                                                      service_ipv6_cidr)

\* An IPv4 CIDR of five components was refused.
C29_Witness ==
    /\ Applied /\ ip_family = "Unknown" /\ service_ipv4_cidr.some
    /\ Cardinality(Places(service_ipv4_cidr.value, ".")) = 4
    /\ dns_ip.kind = "err"

\* ----------------------------------------------------------------- C30
\* C30: what get_info returns after a successful send_info, with no write in
\* between, is the memo that was sent, equal in each of its seven fields.
C30_MemoRoundTrip ==
    read_memo # NotRead =>
        /\ read_memo.kind = "ok"
        /\ \A f \in MemoFields : read_memo.memo[f] = sent_memo[f]

\* A memo with set and unset optional fields came back.
C30_Witness ==
    /\ read_memo.kind = "ok"
    /\ sent_memo.aws_secret_name # None
    /\ sent_memo.cluster_name = ""
    /\ sent_memo.region = None
    /\ sent_memo.provisioning_started

\* ----------------------------------------------------------------- C31
\* The statuses of the send_info calls of the run, in the order of the calls.
SentStatuses ==
    LET sends == SelectSeq(log, LAMBDA e : e.op = "send_info") IN
    [i \in 1..Len(sends) |-> sends[i].status]

\* The order in which create writes its statuses, for either determination.
StatusOrder(required) ==
    <<"Initializing agent", "Getting AWS secret", "Creating AWS config",
      "Determining cluster state",
      IF required THEN "Cluster creation required" ELSE "Cluster already exists">>
    \o (IF required THEN <<"Creating cluster", "Cluster creation complete">> ELSE <<>>)
    \o <<"Writing cluster kubeconfig", "Collecting cluster info", "Cluster ready">>

IsPrefix(s, t) == Len(s) <= Len(t) /\ \A i \in 1..Len(s) : s[i] = t[i]

\* C31: the statuses a create run has sent are a prefix of the fixed order,
\* with "Creating cluster" and "Cluster creation complete" present only when
\* the run determined that creation is required; a send that failed is the
\* last of the run; and "Cluster ready" is sent only directly after the
\* read-back of the cluster answered that it was found.
C31_StatusOrder ==
    op = "create" =>
        /\ \E required \in BOOLEAN :
              /\ IsPrefix(SentStatuses, StatusOrder(required))
              /\ Len(SentStatuses) >= 5 => required = do_create
        /\ \A i \in 1..Len(log) :
              /\ (log[i].op = "send_info" /\ log[i].out = "err") => i = Len(log)
              /\ (log[i].op = "send_info" /\ log[i].status = "Cluster ready") =>
                    /\ i > 1
                    /\ IsReadBack(i - 1)
                    /\ log[i - 1].out = "found"

\* A run that created the cluster has written all ten statuses and returned
\* the description.
C31_Witness ==
    /\ op = "create" /\ result.kind = "ok"
    /\ SentStatuses = StatusOrder(TRUE)

\* ----------------------------------------------------------------- C32
\* The statuses of the checkpoints up to and including the one that records
\* provisioning_started = true.
StatusesUpToMarker ==
    {"Initializing agent", "Getting AWS secret", "Creating AWS config",
     "Determining cluster state", "Cluster creation required",
     "Cluster already exists", "Creating cluster"}

\* C32: a send_info that failed in a create run is the last call of the run
\* (no external operation and no memo write follows it), and the run has
\* returned an error classified Clear when the checkpoint is one of those up
\* to and including "Creating cluster" (which carries the marker) and
\* Remaining when it is a later one; the external create was not invoked
\* when the send of the marker failed.
C32_SendFailureAborts ==
    op = "create" =>
        \A i \in 1..Len(log) :
            (log[i].op = "send_info" /\ log[i].out = "err") =>
                /\ i = Len(log)
                /\ pc = "idle"
                /\ result = Err(IF log[i].status \in StatusesUpToMarker
                                   THEN "Clear" ELSE "Remaining")
                /\ log[i].status = "Creating cluster" =>
                      /\ log[i].marker
                      /\ ~Invoked("eksctl_create")

\* The send of the marker failed and the run returned Clear.
C32_Witness ==
    /\ op = "create" /\ Returned /\ Len(log) >= 1
    /\ LastEntry = Event("send_info", "err", "Creating cluster", TRUE, None, None)
    /\ result = Err("Clear")
    /\ ~store.provisioning_started

\* ----------------------------------------------------------------- C33
\* C33: does_cluster_exist answers "does not exist" only for "not found" and
\* "exists" only for a successful describe. In a create run whose existence
\* query failed otherwise, the query is the last call, the run has returned
\* Clear, eksctl create was not invoked and no send of the run set the
\* marker; a run that went on after the query creates only when the answer
\* was "not found".
C33_QueryFailureIsClear ==
    /\ \A answer \in {"found", "not_found", "error"} :
          LET e == DoesClusterExist(answer) IN
          /\ (e.ok /\ ~e.exists) <=> answer = "not_found"
          /\ (e.ok /\ e.exists) <=> answer = "found"
    /\ op = "create" =>
          \A i \in 1..Len(log) :
              IsExistenceQuery(i) =>
                  /\ log[i].out = "error" =>
                        /\ i = Len(log)
                        /\ pc = "idle"
                        /\ result = Err("Clear")
                        /\ ~Invoked("eksctl_create")
                        /\ \A j \in 1..Len(log) :
                              log[j].op = "send_info" =>
                                  /\ log[j].status # "Creating cluster"
                                  /\ log[j].marker = log[2].marker
                        /\ store.provisioning_started = log[2].marker
                  /\ i < Len(log) =>
                        /\ log[i].out \in {"found", "not_found"}
                        /\ do_create => log[i].out = "not_found"
                        /\ log[i].out = "found" => ~Invoked("eksctl_create")

\* The describe call failed for a cluster that does not exist, under a policy
\* that would have created it; the run returned Clear without creating.
C33_Witness ==
    /\ op = "create" /\ runs = 1 /\ Returned /\ Len(log) >= 1
    /\ IsExistenceQuery(Len(log)) /\ LastEntry.out = "error"
    /\ PolicyOrDefault(spec.creation_policy) = "IfNotExists"
    /\ cloud = {}
    /\ result = Err("Clear")
    /\ ~store.provisioning_started

\* ----------------------------------------------------------------- C34
\* The statuses the Info Channel can hold after a create run that determined
\* that creation is not required and whose necessity message was sent.
ReuseStatuses ==
    {"Cluster already exists", "Writing cluster kubeconfig",
     "Collecting cluster info", "Cluster ready"}

\* C34: a create run that started from the default memo and determined that
\* creation is not required (the existence query answered "found" and the
\* run went on) has not invoked eksctl create and the Info Channel does not
\* carry the marker, however the run ends; the destroy run that follows it
\* on the same channel reads the marker as false, makes no call after
\* get_info, returns Ok, and the cluster that existed before is still there.
C34_ReuseIsNeverDestroyed ==
    /\ (op = "create" /\ runs = 1) =>
          \A i \in 1..Len(log) :
              (IsExistenceQuery(i) /\ log[i].out = "found" /\ i < Len(log)) =>
                  /\ ~do_create
                  /\ ~Invoked("eksctl_create")
                  /\ ~store.provisioning_started
                  /\ \A j \in 1..Len(log) : ~log[j].marker
                  /\ <<log[i].cluster_name, log[i].region>> \in cloud
    /\ (/\ op = "destroy" /\ runs = 2
        /\ prev.op = "create" /\ ~prev.invoked_create
        /\ store.current_status \in ReuseStatuses) =>
          /\ ~store.provisioning_started
          /\ ~Invoked("eksctl_delete")
          /\ \A i \in 1..Len(log) : log[i].op = "get_info"
          /\ (MemoRead /\ pc = "idle") => result \in {Ok(NoResource), Aborted}
          /\ <<"alpha", DEFAULT_REGION>> \in cloud

\* A create run reused the existing cluster and returned its description;
\* the destroy run after it returned Ok without touching the cluster.
C34_Witness ==
    /\ op = "destroy" /\ runs = 2 /\ Returned
    /\ prev.op = "create" /\ prev.kind = "ok" /\ ~prev.invoked_create
    /\ store.current_status = "Cluster ready"
    /\ store.cluster_name = "alpha"
    /\ result = Ok(NoResource)
    /\ cloud = {<<"alpha", DEFAULT_REGION>>}

DeleteCalls == {i \in 1..Len(log) : log[i].op = "eksctl_delete"}

\* C36: a create run that invoked eksctl create and returned Ok has recorded,
\* with the marker, the name and region of the cluster it created, which
\* exists. The destroy run that follows it on the same channel reads the
\* marker as true, invokes eksctl delete at most once and only for the
\* recorded name and region, which name the existing cluster until the
\* delete is invoked, and has invoked it exactly once when it returned after
\* obtaining its credentials.
C36_DestroyDeletesTheCreated ==
    /\ (op = "create" /\ result.kind = "ok" /\ Invoked("eksctl_create")) =>
          /\ store.provisioning_started
          /\ <<store.cluster_name, store.region>> \in cloud
          /\ \E i \in 1..Len(log) :
                /\ log[i] = ExtOp("eksctl_create", "success",
                                  store.cluster_name, store.region)
                /\ \A j \in 1..Len(log) : log[j].op = "eksctl_create" => j = i
    /\ (/\ op = "destroy"
        /\ prev.op = "create" /\ prev.kind = "ok" /\ prev.invoked_create) =>
          /\ store.provisioning_started
          /\ Cardinality(DeleteCalls) <= 1
          /\ \A i \in DeleteCalls :
                /\ log[i].cluster_name = store.cluster_name
                /\ log[i].region = store.region
          /\ DeleteCalls = {} => <<store.cluster_name, store.region>> \in cloud
          /\ (Returned /\ Len(log) >= 2 /\ log[2] = ExtOp("aws_config", "ok", None, store.region))
                => Cardinality(DeleteCalls) = 1

\* The cluster "beta" was created in eu-west-1 by the create run, and the
\* destroy run after it has deleted it.
C36_Witness ==
    /\ op = "destroy" /\ Returned
    /\ prev.op = "create" /\ prev.kind = "ok" /\ prev.invoked_create
    /\ \E i \in DeleteCalls : log[i] = ExtOp("eksctl_delete", "success", "beta", "eu-west-1")
    /\ cloud \cap {<<"beta", "eu-west-1">>} = {}

\* ----------------------------------------------------------------- C37
\* C37: runner.run and runner.terminate are each invoked at most once;
\* runner.terminate is invoked only after runner.run was, and when run has
\* returned it was invoked exactly once if runner.run was invoked (whether
\* runner.run succeeded or failed) and not at all otherwise.
C37_TerminateOncePerRun ==
    /\ Cardinality(CallsOf("runner_run")) <= 1
    /\ Cardinality(CallsOf("terminate")) <= 1
    /\ \A i \in CallsOf("terminate") : \E j \in CallsOf("runner_run") : j < i
    /\ apc = "done" =>
          Cardinality(CallsOf("terminate")) = Cardinality(CallsOf("runner_run"))

\* runner.run failed, the failure was reported, and the runner was
\* terminated once before run returned.
C37_Witness ==
    /\ RunReturned
    /\ \E i \in CallsOf("runner_run") :
          /\ Failed(i)
          /\ CallsOf("terminate") = {i + 2}

\* ----------------------------------------------------------------- C38
\* The steps of run_workload after the plugin loop, in the order of the code.
StepsAfterPlugins ==
    <<"run", "wait_status", "wait_results", "retrieve", "status_json",
      "process_results">>

\* The steps of a complete run_workload for a config of n tests.
ExpectedSteps(n) ==
    [i \in 1..(n + Len(StepsAfterPlugins)) |->
        IF i <= n THEN "gen_plugin" ELSE StepsAfterPlugins[i - n]]

\* C38: the steps run_workload has performed are a prefix of: one plugin
\* generation per test in order, the run with every plugin, the status wait,
\* the results wait, and the retrieval and parsing of the results. Every
\* step but the last succeeded; a step that failed is the last one and
\* run_workload has returned an error. The status wait ends in a timeout
\* exactly when the status would not have come before 900 seconds, and then
\* run_workload has returned the timeout error with the wait as its last
\* step. Ok is returned only after every step succeeded.
C38_WorkloadStepsInOrder ==
    LET n == workload_config.tests
        last == Len(workload_steps)
    IN
    /\ last <= n + Len(StepsAfterPlugins)
    /\ \A i \in 1..last :
          /\ workload_steps[i].step = ExpectedSteps(n)[i]
          /\ i < last => workload_steps[i].out = "ok"
          /\ workload_steps[i].step = "gen_plugin" => workload_steps[i].n = i
          /\ workload_steps[i].step = "run" => workload_steps[i].n = n
          /\ workload_steps[i].step = "wait_status" =>
                /\ workload_steps[i].out = "timeout"
                      <=> workload_steps[i].n >= SONOBUOY_STATUS_TIMEOUT
                /\ workload_steps[i].out = "timeout" =>
                      /\ i = last
                      /\ workload_result = WorkloadErr("SonobuoyTimeout")
    /\ (last >= 1 /\ workload_steps[last].out # "ok") =>
          /\ workload_pc = "done"
          /\ workload_result.kind = "err"
    /\ workload_result.kind = "ok" =>
          /\ last = n + Len(StepsAfterPlugins)
          /\ workload_steps[last].out = "ok"
    /\ workload_pc = "done" <=> workload_result.kind # "none"

\* Two plugins were generated and the workload started; its status did not
\* come within 900 seconds and run_workload returned the timeout error.
C38_Witness ==
    /\ workload_config.tests = 2
    /\ workload_pc = "done"
    /\ Len(workload_steps) = 4
    /\ workload_steps[4] = WorkloadStep("wait_status", "timeout", 901)
    /\ workload_result = WorkloadErr("SonobuoyTimeout")

\* ----------------------------------------------------------------- C39
\* C39: the kind commands of a Cluster::new are a prefix of: delete the
\* cluster of the given name, create it; the create is run only after the
\* delete succeeded; Cluster::new has returned Ok exactly when the create
\* succeeded, and then the new Cluster value carries the name and the kind
\* cluster exists. A drop of a Cluster runs one kind command, the delete of
\* its cluster; it returns no error, and it has written to stderr exactly
\* when the delete failed.
C39_DeleteBeforeCreate ==
    /\ kind_op = "new" =>
          /\ Len(kind_calls) <= 2
          /\ \A i \in 1..Len(kind_calls) :
                /\ kind_calls[i].cmd = <<"delete", "create">>[i]
                /\ kind_calls[i].name = kind_name
                /\ i = 2 => kind_calls[1].out = "success"
          /\ (Len(kind_calls) >= 1 /\ kind_calls[1].out # "success") =>
                /\ kind_pc = "idle"
                /\ kind_result = KindErr
          /\ kind_result = KindOk <=>
                (Len(kind_calls) = 2 /\ kind_calls[2].out = "success")
          /\ kind_result = KindOk =>
                /\ kind_pc = "idle"
                /\ Len(kind_objects) >= 1
                /\ kind_objects[Len(kind_objects)] = kind_name
                /\ kind_name \in kind_clusters
          /\ kind_pc = "idle" => kind_result # KindNone
          /\ ~kind_logged
    /\ kind_op = "drop" =>
          /\ kind_pc = "idle"
          /\ Len(kind_calls) = 1
          /\ kind_calls[1].cmd = "delete"
          /\ kind_calls[1].name = kind_name
          /\ kind_result = KindNone
          /\ kind_logged <=> kind_calls[1].out # "success"
          /\ kind_calls[1].out = "success" => kind_name \notin kind_clusters
    /\ Len(kind_objects) <= kind_ops

\* A Cluster was created, dropped and created again under the same name:
\* the second Cluster::new ran the delete, then the create, and returned Ok.
C39_Witness ==
    /\ kind_op = "new" /\ kind_ops = 3
    /\ kind_result = KindOk
    /\ kind_calls = <<KindCall("delete", "selftest", "success"),
                      KindCall("create", "selftest", "success")>>
    /\ kind_objects = <<"selftest">>

====
